---- MODULE Spec2Model ----
(***************************************************************************)
(* ashttp: a command-line HTTP client.  One run of the program tokenizes   *)
(* its arguments (cmd/action.go NewAction), resolves the alias against the *)
(* configuration file (internal/config), builds an *http.Request           *)
(* (internal/http Request.ToHTTPRequest), sends it once (Execute) and      *)
(* prints the body (cmd/main.go).                                          *)
(*                                                                         *)
(* Go strings are TLA+ strings; Len, \o and SubSeq work on them character  *)
(* by character.  Go maps are functions whose domain is the key set; the   *)
(* order a `range` visits a map in is chosen nondeterministically.         *)
(***************************************************************************)
EXTENDS Integers, Sequences, FiniteSets, TLC

VARIABLES
    args,       \* flag.Args(): the command-line tokens
    pc,         \* position in main (or in the ToHTTPRequest harness)
    action,     \* main's `action` (zero Action when NewAction failed)
    err,        \* the last `err` assigned in main
    fs,         \* the config directory and file on disk
    setting,    \* main's `setting`
    request,    \* main's `request` (internal/http Request)
    built,      \* result of request.ToHTTPRequest(setting)
    sent,       \* number of client.Do calls made
    response,   \* bytes Execute returned
    stdout,     \* lines printed
    exitCode,   \* -1 while running, else the code passed to os.Exit / 0 at return
    network,    \* what the transport gave the last client.Do
    call,       \* the arguments of a function called on its own
    result      \* what the functions called on their own returned

vars == <<args, pc, action, err, fs, setting, request, built, sent, response,
          stdout, exitCode, network, call, result>>

----------------------------------------------------------------------------
(* Bounds of the model *)

\* longest tail of tokens after <alias> <method>
MaxRest == 3
\* most entries in a config or request header map of the ToHTTPRequest harness
MaxHeaders == 2
\* most entries in the Arguments map of the ToHTTPRequest harness
MaxArguments == 2
MaxComponents == 3
MaxFlags == 2
MaxCalls == 2

----------------------------------------------------------------------------
(* Go's strings package, on TLA+ strings *)

LowerLetters == "abcdefghijklmnopqrstuvwxyz"
UpperLetters == "ABCDEFGHIJKLMNOPQRSTUVWXYZ"
Digits == "0123456789"
NLetters == Len(LowerLetters)

CharAt(s, i) == SubSeq(s, i, i)

CharsOf(s) == {CharAt(s, i) : i \in 1..Len(s)}

ContainsChar(s, c) == c \in CharsOf(s)

\* lower-case letter -> upper-case letter, and back
UpperOf == [i \in 1..NLetters |-> CharAt(UpperLetters, i)]
LowerOf == [i \in 1..NLetters |-> CharAt(LowerLetters, i)]
LowerSet == {LowerOf[i] : i \in 1..NLetters}
UpperSet == {UpperOf[i] : i \in 1..NLetters}

\* unicode.ToUpper on one ASCII character
UpperChar(c) ==
    IF c \in LowerSet
    THEN UpperOf[CHOOSE i \in 1..NLetters : LowerOf[i] = c]
    ELSE c

\* unicode.ToLower on one ASCII character
LowerChar(c) ==
    IF c \in UpperSet
    THEN LowerOf[CHOOSE i \in 1..NLetters : UpperOf[i] = c]
    ELSE c

RECURSIVE ToUpper(_)
ToUpper(s) ==
    IF Len(s) = 0 THEN ""
    ELSE UpperChar(CharAt(s, 1)) \o ToUpper(SubSeq(s, 2, Len(s)))

RECURSIVE ToLower(_)
ToLower(s) ==
    IF Len(s) = 0 THEN ""
    ELSE LowerChar(CharAt(s, 1)) \o ToLower(SubSeq(s, 2, Len(s)))

HasPrefix(s, prefix) ==
    /\ Len(s) >= Len(prefix)
    /\ \A i \in 1..Len(prefix) : CharAt(s, i) = CharAt(prefix, i)

TrimPrefix(s, prefix) ==
    IF HasPrefix(s, prefix)
    THEN (IF Len(s) = Len(prefix) THEN "" ELSE SubSeq(s, Len(prefix) + 1, Len(s)))
    ELSE s

\* strings.Contains
Contains(s, sub) ==
    \E i \in 1..(Len(s) + 1) :
        /\ i + Len(sub) - 1 <= Len(s)
        /\ \A j \in 1..Len(sub) : CharAt(s, i + j - 1) = CharAt(sub, j)

RECURSIVE Join(_, _)
Join(elems, sep) ==
    IF Len(elems) = 0 THEN ""
    ELSE IF Len(elems) = 1 THEN elems[1]
    ELSE elems[1] \o sep \o Join(Tail(elems), sep)

\* the index of the first c in s (s holds one)
IndexChar(s, c) ==
    CHOOSE i \in 1..Len(s) :
        CharAt(s, i) = c /\ \A j \in 1..(i - 1) : CharAt(s, j) # c

\* strings.Cut(s, c): what is before and after the first c
Before(s, c) ==
    IF ~ContainsChar(s, c) THEN s
    ELSE IF IndexChar(s, c) = 1 THEN "" ELSE SubSeq(s, 1, IndexChar(s, c) - 1)
After(s, c) ==
    IF ~ContainsChar(s, c) THEN ""
    ELSE IF IndexChar(s, c) = Len(s) THEN "" ELSE SubSeq(s, IndexChar(s, c) + 1, Len(s))

\* the URL after its scheme separator
AfterScheme(url) == TrimPrefix(TrimPrefix(url, "https://"), "http://")

----------------------------------------------------------------------------
(* Go maps *)

EmptyMap == [k \in {} |-> ""]

Put(m, k, v) == [x \in (DOMAIN m) \cup {k} |-> IF x = k THEN v ELSE m[x]]

\* the orders in which `for k, v := range m` may visit the keys of m
RangeOrders(m) ==
    {o \in [1..Cardinality(DOMAIN m) -> DOMAIN m] :
        \A i, j \in 1..Cardinality(DOMAIN m) : o[i] = o[j] => i = j}

----------------------------------------------------------------------------
(* errors *)

\* an error value: its text and the sentinel errors it wraps (errors.Is)
NoError == [isErr |-> FALSE, msg |-> "", wraps |-> {}]
NewError(msg, wraps) == [isErr |-> TRUE, msg |-> msg, wraps |-> wraps]

errInvalidFormat == NewError("invalid format", {"errInvalidFormat"})

\* errors.Is(e, target) for a sentinel target
ErrorsIs(e, target) == e.isErr /\ target.wraps \subseteq e.wraps /\ target.wraps # {}

----------------------------------------------------------------------------
(* cmd/action.go *)

ZeroAction ==
    [URLAlias |-> "", HTTPMethod |-> "", URLPathComponents |-> <<>>,
     Options |-> EmptyMap]

\* http.MethodGet, http.MethodDelete
MethodGet == "GET"
MethodDelete == "DELETE"

\* variant: post is accepted as well
acceptedMethodsWithPost == <<ToLower(MethodGet), ToLower(MethodDelete), "post">>

acceptedMethods == <<ToLower(MethodGet), ToLower(MethodDelete)>>

\* slices.Contains
SlicesContains(s, v) == \E i \in 1..Len(s) : s[i] = v

\* variant: every method token passes
validateHTTPMethodAcceptAll(method) == NoError

validateHTTPMethod(method) ==
    IF ~SlicesContains(acceptedMethods, method)
    THEN NewError("invalid http method, only " \o Join(acceptedMethods, ", ")
                      \o " are supported", {})
    ELSE NoError

\* variant: a flag's value ends flag mode
RECURSIVE ScanTokensLeaveFlagMode(_, _, _, _)
ScanTokensLeaveFlagMode(tokens, readingFlag, lastFlag, req) ==
    IF Len(tokens) = 0 THEN req
    ELSE LET arg == Head(tokens) IN
         IF HasPrefix(arg, "--")
         THEN ScanTokensLeaveFlagMode(Tail(tokens), TRUE, TrimPrefix(arg, "--"),
                  [req EXCEPT !.Options = Put(@, TrimPrefix(arg, "--"), "")])
         ELSE IF readingFlag
         THEN ScanTokensLeaveFlagMode(Tail(tokens), FALSE, lastFlag,
                  [req EXCEPT !.Options = Put(@, lastFlag, arg)])
         ELSE ScanTokensLeaveFlagMode(Tail(tokens), readingFlag, lastFlag,
                  [req EXCEPT !.URLPathComponents = Append(@, arg)])

\* variant: a flag keeps the first value it is given
RECURSIVE ScanTokensFirstValue(_, _, _, _)
ScanTokensFirstValue(tokens, readingFlag, lastFlag, req) ==
    IF Len(tokens) = 0 THEN req
    ELSE LET arg == Head(tokens) IN
         IF HasPrefix(arg, "--")
         THEN ScanTokensFirstValue(Tail(tokens), TRUE, TrimPrefix(arg, "--"),
                  [req EXCEPT !.Options = Put(@, TrimPrefix(arg, "--"), "")])
         ELSE IF readingFlag
         THEN ScanTokensFirstValue(Tail(tokens), readingFlag, lastFlag,
                  IF req.Options[lastFlag] = ""
                  THEN [req EXCEPT !.Options = Put(@, lastFlag, arg)]
                  ELSE req)
         ELSE ScanTokensFirstValue(Tail(tokens), readingFlag, lastFlag,
                  [req EXCEPT !.URLPathComponents = Append(@, arg)])

\* the loop of NewAction over args[2:], one token per unfolding
RECURSIVE ScanTokens(_, _, _, _)
ScanTokens(tokens, readingFlag, lastFlag, req) ==
    IF Len(tokens) = 0 THEN req
    ELSE LET arg == Head(tokens) IN
         IF HasPrefix(arg, "--")
         THEN ScanTokens(Tail(tokens), TRUE, TrimPrefix(arg, "--"),
                  [req EXCEPT !.Options = Put(@, TrimPrefix(arg, "--"), "")])
         ELSE IF readingFlag
         THEN ScanTokens(Tail(tokens), readingFlag, lastFlag,
                  [req EXCEPT !.Options = Put(@, lastFlag, arg)])
         ELSE ScanTokens(Tail(tokens), readingFlag, lastFlag,
                  [req EXCEPT !.URLPathComponents = Append(@, arg)])

\* the state of the loop before the first token
LoopStart(a) ==
    [readingFlag |-> FALSE, lastFlag |-> "",
     request |-> [URLAlias |-> a[1], HTTPMethod |-> a[2],
                  URLPathComponents |-> <<>>, Options |-> EmptyMap]]

\* variant: a flag's value ends flag mode
LoopStepValueEndsFlag(arg, st) ==
    IF HasPrefix(arg, "--")
    THEN [readingFlag |-> TRUE, lastFlag |-> TrimPrefix(arg, "--"),
          request |-> [st.request EXCEPT !.Options = Put(@, TrimPrefix(arg, "--"), "")]]
    ELSE IF st.readingFlag
    THEN [st EXCEPT !.readingFlag = FALSE,
                    !.request.Options = Put(@, st.lastFlag, arg)]
    ELSE [st EXCEPT !.request.URLPathComponents = Append(@, arg)]

\* one pass of the body of the loop of NewAction, on the token arg
LoopStep(arg, st) ==
    IF HasPrefix(arg, "--")
    THEN [readingFlag |-> TRUE, lastFlag |-> TrimPrefix(arg, "--"),
          request |-> [st.request EXCEPT !.Options = Put(@, TrimPrefix(arg, "--"), "")]]
    ELSE IF st.readingFlag
    THEN [st EXCEPT !.request.Options = Put(@, st.lastFlag, arg)]
    ELSE [st EXCEPT !.request.URLPathComponents = Append(@, arg)]

\* variant: the too-few-tokens error is formatted with %v, not wrapped with %w
NewActionUnwrapped(a) ==
    IF Len(a) < 2
    THEN [action |-> ZeroAction,
          err |-> NewError(errInvalidFormat.msg \o ": empty arguments", {})]
    ELSE LET verr == validateHTTPMethod(a[2]) IN
         IF verr.isErr
         THEN [action |-> ZeroAction,
               err |-> NewError("unsuported http method: " \o verr.msg, verr.wraps)]
         ELSE [action |-> ScanTokens(SubSeq(a, 3, Len(a)), FALSE, "",
                              [URLAlias |-> a[1], HTTPMethod |-> a[2],
                               URLPathComponents |-> <<>>, Options |-> EmptyMap]),
               err |-> NoError]

NewAction(a) ==
    IF Len(a) < 2
    THEN [action |-> ZeroAction,
          err |-> NewError(errInvalidFormat.msg \o ": empty arguments",
                           errInvalidFormat.wraps)]
    ELSE LET verr == validateHTTPMethod(a[2]) IN
         IF verr.isErr
         THEN [action |-> ZeroAction,
               err |-> NewError("unsuported http method: " \o verr.msg, verr.wraps)]
         ELSE [action |-> ScanTokens(SubSeq(a, 3, Len(a)), FALSE, "",
                              [URLAlias |-> a[1], HTTPMethod |-> a[2],
                               URLPathComponents |-> <<>>, Options |-> EmptyMap]),
               err |-> NoError]

----------------------------------------------------------------------------
(* internal/config *)

\* os.ExpandEnv("$HOME") of the run
HomeDir == "/home/user"

\* path.Join
PathJoin(elems) == Join(elems, "/")

defaultFileFolder == PathJoin(<<HomeDir, ".config", "ashttp">>)
defaultFilePath == PathJoin(<<defaultFileFolder, "config.json">>)

\* ExternalSetting: alias -> {url, defaultHeaders}
defaultSetting ==
    [a \in {"httpbin"} |->
        [url |-> "https://httpbin.dev/anything",
         defaultHeaders |-> [h \in {"authorization"} |-> "123"]]]

\* File bytes: either the JSON text of an ExternalSetting value or text that
\* is not JSON.
JSONMarshalIndent(v) == [json |-> TRUE, value |-> v]
NotJSON == [json |-> FALSE, value |-> EmptyMap]

\* json.Unmarshal(data, &configs)
JSONUnmarshal(data) ==
    IF data.json
    THEN [value |-> data.value, err |-> NoError]
    ELSE [value |-> EmptyMap, err |-> NewError("invalid character", {})]

\* The config path on disk: whether the folder and the file are there, the
\* bytes of the file, and what the file system refuses: nothing ("none"),
\* every change ("readonly": a read-only file system or home folder), new
\* bytes ("full": no space left) or access to the file ("unreadable": mode
\* 000, or a directory in the place of the file).
Faults == {"none", "readonly", "full", "unreadable"}

\* what os.WriteFile leaves between its open (O_CREATE|O_TRUNC) and its
\* write: an empty file, which is not JSON
TruncatedFile == NotJSON

\* os.MkdirAll(filepath.Dir(filePath), 0755): nil when the folder is there
osMkdirAll(disk) ==
    IF disk.dir
    THEN [fs |-> disk, err |-> NoError]
    ELSE IF disk.fault = "readonly"
    THEN [fs |-> disk,
          err |-> NewError("mkdir " \o defaultFileFolder \o ": read-only file system", {})]
    ELSE [fs |-> [disk EXCEPT !.dir = TRUE], err |-> NoError]

\* os.WriteFile, first half: OpenFile(name, O_WRONLY|O_CREATE|O_TRUNC, perm)
osOpenFile(disk) ==
    IF ~disk.dir
    THEN [fs |-> disk,
          err |-> NewError("open " \o defaultFilePath \o ": no such file or directory", {})]
    ELSE IF disk.fault = "readonly"
    THEN [fs |-> disk,
          err |-> NewError("open " \o defaultFilePath \o ": read-only file system", {})]
    ELSE IF disk.fault = "unreadable"
    THEN [fs |-> disk,
          err |-> NewError("open " \o defaultFilePath \o ": permission denied", {})]
    ELSE [fs |-> [disk EXCEPT !.file = TRUE, !.data = TruncatedFile], err |-> NoError]

\* os.WriteFile, second half: f.Write(data) at offset 0, f.Close()
osWrite(disk, data) ==
    IF disk.fault = "full"
    THEN [fs |-> disk,
          err |-> NewError("write " \o defaultFilePath \o ": no space left on device", {})]
    ELSE [fs |-> [disk EXCEPT !.data = data], err |-> NoError]

\* os.WriteFile(filePath, data, 0644)
osWriteFile(disk, data) ==
    LET opened == osOpenFile(disk) IN
    IF opened.err.isErr THEN opened ELSE osWrite(opened.fs, data)

\* os.ReadFile(filePath)
osReadFile(disk) ==
    IF ~disk.file
    THEN [data |-> NotJSON,
          err |-> NewError("open " \o defaultFilePath \o ": no such file or directory", {})]
    ELSE IF disk.fault = "unreadable"
    THEN [data |-> NotJSON,
          err |-> NewError("open " \o defaultFilePath \o ": permission denied", {})]
    ELSE [data |-> disk.data, err |-> NoError]

\* variant: a file that is there is left as it is
createDefaultSettingKeepExisting(disk) ==
    IF disk.file
    THEN [fs |-> disk, err |-> NoError]
    ELSE LET made == osMkdirAll(disk) IN
         IF made.err.isErr
         THEN [fs |-> made.fs, err |-> made.err]
         ELSE osWriteFile(made.fs, JSONMarshalIndent(defaultSetting))

\* createDefaultSetting(defaultFilePath) on the disk state `disk`;
\* json.MarshalIndent of the default setting cannot fail
createDefaultSetting(disk) ==
    LET made == osMkdirAll(disk) IN
    IF made.err.isErr
    THEN [fs |-> made.fs, err |-> made.err]
    ELSE osWriteFile(made.fs, JSONMarshalIndent(defaultSetting))

\* what loadSettingFromFile does after createDefaultSetting: os.ReadFile,
\* json.Unmarshal and the return
ReadAndParse(disk) ==
    LET read == osReadFile(disk) IN
    IF read.err.isErr
    THEN [fs |-> disk, value |-> EmptyMap, nil |-> TRUE,
          err |-> NewError("failed to read config file: " \o read.err.msg,
                           read.err.wraps)]
    ELSE LET parsed == JSONUnmarshal(read.data) IN
         IF parsed.err.isErr
         THEN [fs |-> disk, value |-> EmptyMap, nil |-> TRUE,
               err |-> NewError("failed to parse JSON: " \o parsed.err.msg,
                                parsed.err.wraps)]
         ELSE [fs |-> disk, value |-> parsed.value, nil |-> FALSE, err |-> NoError]

\* variant: the default is written on every load
loadSettingFromFileAlwaysCreate(disk) ==
    LET created == createDefaultSetting(disk) IN
    IF created.err.isErr
    THEN [fs |-> created.fs, value |-> EmptyMap, nil |-> TRUE, err |-> created.err]
    ELSE ReadAndParse(created.fs)

\* variant: the file is read before the default is created
loadSettingFromFileReadFirst(disk) ==
    LET read == ReadAndParse(disk)
        created == IF ~disk.file THEN createDefaultSetting(disk)
                   ELSE [fs |-> disk, err |-> NoError]
    IN  [read EXCEPT !.fs = created.fs]

\* variant: a file that does not parse is answered with the default setting
loadSettingFromFileDefaulting(disk) ==
    LET created == IF ~disk.file THEN createDefaultSetting(disk)
                   ELSE [fs |-> disk, err |-> NoError]
    IN  IF created.err.isErr
        THEN [fs |-> created.fs, value |-> EmptyMap, nil |-> TRUE, err |-> created.err]
        ELSE LET loaded == ReadAndParse(created.fs) IN
             IF HasPrefix(loaded.err.msg, "failed to parse JSON")
             THEN [fs |-> created.fs, value |-> defaultSetting, nil |-> FALSE,
                   err |-> NoError]
             ELSE loaded

\* loadSettingFromFile(defaultFilePath) on the disk state `disk`; nil tells a
\* nil ExternalSetting from an empty one. os.Stat answers "not exist" when
\* the file is absent; any other answer leads to os.ReadFile
loadSettingFromFile(disk) ==
    LET created == IF ~disk.file THEN createDefaultSetting(disk)
                   ELSE [fs |-> disk, err |-> NoError]
    IN  IF created.err.isErr
        THEN [fs |-> created.fs, value |-> EmptyMap, nil |-> TRUE, err |-> created.err]
        ELSE ReadAndParse(created.fs)

ZeroSetting == [URL |-> "", Headers |-> EmptyMap]

settingsFromExternalSettings(externalSettings) ==
    [k \in DOMAIN externalSettings |->
        [URL |-> externalSettings[k].url,
         Headers |-> externalSettings[k].defaultHeaders]]

GetSettings(disk) ==
    LET loaded == loadSettingFromFile(disk) IN
    IF loaded.err.isErr
    THEN [fs |-> loaded.fs, settings |-> EmptyMap, err |-> loaded.err]
    ELSE [fs |-> loaded.fs,
          settings |-> settingsFromExternalSettings(loaded.value),
          err |-> NoError]

GetDefaultConfigPath == defaultFilePath

\* variant: the alias is looked up without regard to letter case
ActionSettingFoldCase(a, disk) ==
    LET got == GetSettings(disk) IN
    IF got.err.isErr
    THEN [fs |-> got.fs, setting |-> ZeroSetting, err |-> got.err]
    ELSE IF ToLower(a.URLAlias) \in DOMAIN got.settings
    THEN [fs |-> got.fs, setting |-> got.settings[ToLower(a.URLAlias)],
          err |-> NoError]
    ELSE [fs |-> got.fs, setting |-> ZeroSetting,
          err |-> NewError("no config found for " \o a.URLAlias
                               \o ", make sure it exists at "
                               \o GetDefaultConfigPath, {})]

\* Action.Setting (cmd/action.go)
ActionSetting(a, disk) ==
    LET got == GetSettings(disk) IN
    IF got.err.isErr
    THEN [fs |-> got.fs, setting |-> ZeroSetting, err |-> got.err]
    ELSE IF a.URLAlias \in DOMAIN got.settings
    THEN [fs |-> got.fs, setting |-> got.settings[a.URLAlias], err |-> NoError]
    ELSE [fs |-> got.fs, setting |-> ZeroSetting,
          err |-> NewError("no config found for " \o a.URLAlias
                               \o ", make sure it exists at "
                               \o GetDefaultConfigPath, {})]

\* Action.Request (cmd/action.go)
ActionRequest(a) ==
    [Path |-> Join(a.URLPathComponents, "/"),
     Method |-> a.HTTPMethod,
     Headers |-> EmptyMap,
     Arguments |-> a.Options]

----------------------------------------------------------------------------
(* net/http and net/textproto, as far as the program uses them *)

\* the bytes textproto accepts in a header field name (RFC 7230 tchar; the
\* quote, percent and backquote characters are left out of the model's alphabet)
TokenChars == LowerLetters \o UpperLetters \o Digits \o "!#$&*+-.^_|~"

TokenCharSet == CharsOf(TokenChars)

IsToken(s) == \A i \in 1..Len(s) : CharAt(s, i) \in TokenCharSet

\* the canonicalising loop: upper-case the first letter and every letter
\* after a '-', lower-case the rest
RECURSIVE CanonLoop(_, _)
CanonLoop(s, upper) ==
    IF Len(s) = 0 THEN ""
    ELSE LET c == CharAt(s, 1)
             d == IF upper THEN UpperChar(c) ELSE LowerChar(c)
         IN  d \o CanonLoop(SubSeq(s, 2, Len(s)), d = "-")

\* textproto.CanonicalMIMEHeaderKey: a name holding a byte that is no token
\* byte is returned unchanged
CanonicalMIMEHeaderKey(s) == IF IsToken(s) THEN CanonLoop(s, TRUE) ELSE s

\* http.Header is map[string][]string, keyed by canonical name
\* variant: the name is kept as written
HeaderSetExactKey(h, k, v) == Put(h, k, <<v>>)

HeaderSet(h, k, v) == Put(h, CanonicalMIMEHeaderKey(k), <<v>>)

HeaderGet(h, k) ==
    IF CanonicalMIMEHeaderKey(k) \in DOMAIN h
    THEN h[CanonicalMIMEHeaderKey(k)][1]
    ELSE ""

\* a nil body / a nil *http.Request
NilBody == [present |-> FALSE, bytes |-> ""]
NilRequest ==
    [nil |-> TRUE, Method |-> "", URL |-> "", Header |-> EmptyMap, Body |-> NilBody]

\* net/http validMethod: a non-empty token
ValidMethod(method) == Len(method) > 0 /\ IsToken(method)

\* the host of a URL: what stands between the scheme separator and the path
\* or the query
HostOf(url) == Before(Before(AfterScheme(url), "?"), "/")

\* url.Parse accepts the URLs of this model but those with a space in the host
URLParses(url) == ~ContainsChar(HostOf(url), " ")

\* http.NewRequest: "" means GET, the method is otherwise stored as given;
\* the URL has to parse.
HTTPNewRequest(method, url, body) ==
    LET m == IF method = "" THEN MethodGet ELSE method IN
    IF ~ValidMethod(m)
    THEN [req |-> NilRequest, err |-> NewError("net/http: invalid method", {})]
    ELSE IF ~URLParses(url)
    THEN [req |-> NilRequest,
          err |-> NewError("parse " \o url \o ": invalid character in host name", {})]
    ELSE [req |-> [nil |-> FALSE, Method |-> m, URL |-> url,
                   Header |-> EmptyMap, Body |-> body],
          err |-> NoError]

----------------------------------------------------------------------------
(* internal/http *)

\* the loop of QueryString.ToURL, visiting the keys in the order `order`
RECURSIVE QueryLoop(_, _, _)
QueryLoop(q, order, query) ==
    IF Len(order) = 0 THEN query
    ELSE QueryLoop(q, Tail(order),
                   query \o "&" \o Head(order) \o "=" \o q[Head(order)])

\* variant: the leading separator is not cut off
QueryStringToURLUncut(q, order) ==
    QueryLoop(q, order, "")

\* QueryString.ToURL (a nil map and an empty map both give "")
QueryStringToURL(q, order) ==
    LET query == QueryLoop(q, order, "") IN
    IF query = "" THEN query ELSE SubSeq(query, 2, Len(query))

\* PathComponents.ToURL
PathComponentsToURL(p) == Join(p, "/")

\* variant: the question mark is written whatever the query string is
PathAlwaysQuery(pathsComponents, query, order) ==
    LET url == PathComponentsToURL(pathsComponents)
        queryString == QueryStringToURL(query, order)
    IN  url \o "?" \o queryString

\* Path; order is the order of the range over the query map
Path(pathsComponents, query, order) ==
    LET url == PathComponentsToURL(pathsComponents)
        queryString == QueryStringToURL(query, order)
    IN  IF queryString = "" THEN url ELSE url \o "?" \o queryString

\* variant: the method is matched without strings.ToUpper
buildHTTPRequestExactCase(r, s, argOrder) ==
    IF r.Method \in {MethodGet, MethodDelete}
    THEN LET queryString == QueryStringToURL(r.Arguments, argOrder)
             url == s.URL \o "/" \o r.Path
         IN  HTTPNewRequest(r.Method,
                 IF queryString # "" THEN url \o "?" \o queryString ELSE url,
                 NilBody)
    ELSE [req |-> NilRequest, err |-> NewError("method not suported", {})]

\* variant: the arguments are also sent as a body
buildHTTPRequestWithBody(r, s, argOrder) ==
    IF ToUpper(r.Method) \in {MethodGet, MethodDelete}
    THEN LET queryString == QueryStringToURL(r.Arguments, argOrder)
             url == s.URL \o "/" \o r.Path
         IN  HTTPNewRequest(r.Method,
                 IF queryString # "" THEN url \o "?" \o queryString ELSE url,
                 [present |-> TRUE, bytes |-> queryString])
    ELSE [req |-> NilRequest, err |-> NewError("method not suported", {})]

\* Request.buildHTTPRequest
buildHTTPRequest(r, s, argOrder) ==
    IF ToUpper(r.Method) \in {MethodGet, MethodDelete}
    THEN LET queryString == QueryStringToURL(r.Arguments, argOrder)
             url == s.URL \o "/" \o r.Path
         IN  HTTPNewRequest(r.Method,
                 IF queryString # "" THEN url \o "?" \o queryString ELSE url,
                 NilBody)
    ELSE [req |-> NilRequest, err |-> NewError("method not suported", {})]

\* for k, v := range m { req.Header.Set(k, v) }
RECURSIVE SetHeaders(_, _, _)
SetHeaders(h, m, order) ==
    IF Len(order) = 0 THEN h
    ELSE SetHeaders(HeaderSet(h, Head(order), m[Head(order)]), m, Tail(order))

\* variant: the config headers are applied after the request headers
ToHTTPRequestConfigLast(r, s, argOrder, settingOrder, requestOrder) ==
    LET b == buildHTTPRequest(r, s, argOrder) IN
    IF b.err.isErr
    THEN [req |-> NilRequest, err |-> b.err]
    ELSE LET h0 == HeaderSet(b.req.Header, "Content-Type", "application/json")
             h1 == SetHeaders(h0, r.Headers, requestOrder)
             h2 == SetHeaders(h1, s.Headers, settingOrder)
         IN  [req |-> [b.req EXCEPT !.Header = h2], err |-> NoError]

\* variant: Content-Type is not set
ToHTTPRequestNoContentType(r, s, argOrder, settingOrder, requestOrder) ==
    LET b == buildHTTPRequest(r, s, argOrder) IN
    IF b.err.isErr
    THEN [req |-> NilRequest, err |-> b.err]
    ELSE LET h1 == SetHeaders(b.req.Header, s.Headers, settingOrder)
             h2 == SetHeaders(h1, r.Headers, requestOrder)
         IN  [req |-> [b.req EXCEPT !.Header = h2], err |-> NoError]

\* Request.ToHTTPRequest; the three orders are those of the three map ranges
ToHTTPRequest(r, s, argOrder, settingOrder, requestOrder) ==
    LET b == buildHTTPRequest(r, s, argOrder) IN
    IF b.err.isErr
    THEN [req |-> NilRequest, err |-> b.err]
    ELSE LET h0 == HeaderSet(b.req.Header, "Content-Type", "application/json")
             h1 == SetHeaders(h0, s.Headers, settingOrder)
             h2 == SetHeaders(h1, r.Headers, requestOrder)
         IN  [req |-> [b.req EXCEPT !.Header = h2], err |-> NoError]

\* What client.Do and io.ReadAll may give: a transport failure, a body-read
\* failure, or the body of an answer with any status. requests is the number of
\* HTTP requests that went out inside the one client.Do: the zero http.Client
\* follows redirects, so an answer may be the answer to a second request.
NetworkOutcomes ==
    {[err |-> NewError("dial tcp: connection refused", {}), status |-> 0, body |-> "",
      requests |-> 1],
     [err |-> NewError("unexpected EOF", {}), status |-> 200, body |-> "", requests |-> 1],
     [err |-> NoError, status |-> 200, body |-> "{\"a\":1}", requests |-> 1],
     [err |-> NoError, status |-> 200, body |-> "{\"a\":1}", requests |-> 2],
     [err |-> NoError, status |-> 204, body |-> "", requests |-> 1],
     [err |-> NoError, status |-> 404, body |-> "not json", requests |-> 1],
     [err |-> NoError, status |-> 500, body |-> "\"oops\"", requests |-> 1],
     [err |-> NoError, status |-> 201, body |-> "{\"b\":{\"c\":\"d\"},\"a\":1}",
      requests |-> 1],
     [err |-> NoError, status |-> 400, body |-> "1.0", requests |-> 1]}

\* before any client.Do
NoOutcome == [err |-> NoError, status |-> 0, body |-> "", requests |-> 0]

\* variant: a failed call is made a second time
ExecuteRetry(outcome) ==
    IF outcome.err.isErr
    THEN [body |-> "", err |-> outcome.err, calls |-> 2]
    ELSE [body |-> outcome.body, err |-> NoError, calls |-> 1]

\* variant: an answer with an error status is turned into an error
ExecuteCheckStatus(outcome) ==
    IF outcome.err.isErr \/ outcome.status >= 400
    THEN [body |-> "", err |-> NewError("unexpected status", {}), calls |-> 1]
    ELSE [body |-> outcome.body, err |-> NoError, calls |-> 1]

\* Execute: one client.Do, then io.ReadAll; calls counts the client.Do calls
Execute(outcome) ==
    IF outcome.err.isErr
    THEN [body |-> "", err |-> outcome.err, calls |-> 1]
    ELSE [body |-> outcome.body, err |-> NoError, calls |-> 1]

\* no function has been called on its own
NoCall == [fn |-> "none"]

----------------------------------------------------------------------------
(* cmd/main.go *)

cliFormatExpected == "<URL-alias> <http-method> [path-components...] [--option value]"

\* byte order of the characters JSON object keys are made of here
ByteOrder == Digits \o UpperLetters \o "_" \o LowerLetters
ByteRank(c) == CHOOSE i \in 1..Len(ByteOrder) : CharAt(ByteOrder, i) = c

\* a < b as Go compares strings
RECURSIVE StringLess(_, _)
StringLess(a, b) ==
    IF Len(b) = 0 THEN FALSE
    ELSE IF Len(a) = 0 THEN TRUE
    ELSE IF CharAt(a, 1) = CharAt(b, 1)
         THEN StringLess(SubSeq(a, 2, Len(a)), SubSeq(b, 2, Len(b)))
         ELSE ByteRank(CharAt(a, 1)) < ByteRank(CharAt(b, 1))

\* the keys of a map in the sorted order encoding/json writes them in
RECURSIVE SortedKeys(_)
SortedKeys(keys) ==
    IF keys = {} THEN <<>>
    ELSE LET least == CHOOSE x \in keys : \A y \in keys \ {x} : StringLess(x, y)
         IN  <<least>> \o SortedKeys(keys \ {least})

\* what json.Unmarshal stores in an `any`: nil, float64, string or
\* map[string]any
JNull == [kind |-> "null", text |-> "", fields |-> EmptyMap]
JNumber(text) == [kind |-> "number", text |-> text, fields |-> EmptyMap]
JString(text) == [kind |-> "string", text |-> text, fields |-> EmptyMap]
JObject(fields) == [kind |-> "object", text |-> "", fields |-> fields]

\* The JSON texts of this model and the values they decode to (numbers as
\* float64 are formatted back); every other text is not JSON.
JSONTexts ==
    [t \in {"{\"a\":1}", "\"oops\"", "{\"b\":{\"c\":\"d\"},\"a\":1}", "1.0", "{}",
            "null", "1", "{\n  \"a\": 1\n}",
            "{\n  \"a\": 1,\n  \"b\": {\n    \"c\": \"d\"\n  }\n}"} |->
        CASE t = "\"oops\"" -> JString("oops")
          [] t \in {"1.0", "1"} -> JNumber("1")
          [] t = "{}" -> JObject(EmptyMap)
          [] t = "null" -> JNull
          [] t \in {"{\"a\":1}", "{\n  \"a\": 1\n}"} ->
                 JObject([k \in {"a"} |-> JNumber("1")])
          [] OTHER ->
                 JObject([k \in {"a", "b"} |->
                     IF k = "a" THEN JNumber("1")
                     ELSE JObject([c \in {"c"} |-> JString("d")])])]

\* json.Unmarshal(resp, &data) with data of type any
JSONUnmarshalAny(resp) ==
    IF resp \in DOMAIN JSONTexts
    THEN [value |-> JSONTexts[resp], err |-> NoError]
    ELSE [value |-> JNull, err |-> NewError("invalid character", {})]

\* the indentation before a line at nesting depth `depth`
RECURSIVE IndentOf(_)
IndentOf(depth) == IF depth = 0 THEN "" ELSE "  " \o IndentOf(depth - 1)

\* the text json.MarshalIndent(data, "", "  ") writes for a decoded value
RECURSIVE EncodeIndent(_, _)
RECURSIVE EncodeMembers(_, _, _)
EncodeMembers(fields, keys, depth) ==
    IF Len(keys) = 0 THEN ""
    ELSE IndentOf(depth) \o "\"" \o Head(keys) \o "\": "
             \o EncodeIndent(fields[Head(keys)], depth)
             \o (IF Len(keys) > 1 THEN ",\n" ELSE "\n")
             \o EncodeMembers(fields, Tail(keys), depth)
EncodeIndent(v, depth) ==
    CASE v.kind = "null" -> "null"
      [] v.kind = "number" -> v.text
      [] v.kind = "string" -> "\"" \o v.text \o "\""
      [] OTHER ->
             IF DOMAIN v.fields = {} THEN "{}"
             ELSE "{\n" \o EncodeMembers(v.fields, SortedKeys(DOMAIN v.fields), depth + 1)
                      \o IndentOf(depth) \o "}"

\* json.MarshalIndent(data, "", "  "); a decoded value always encodes
JSONMarshalIndentAny(v) == [text |-> EncodeIndent(v, 0), err |-> NoError]

\* variant: bytes that are not JSON are an error
prettyResponseStrict(resp) ==
    LET decoded == JSONUnmarshalAny(resp) IN
    IF decoded.err.isErr
    THEN [out |-> "", err |-> decoded.err]
    ELSE LET pretty == JSONMarshalIndentAny(decoded.value) IN
         IF pretty.err.isErr
         THEN [out |-> "", err |-> pretty.err]
         ELSE [out |-> pretty.text, err |-> NoError]

prettyResponse(resp) ==
    LET decoded == JSONUnmarshalAny(resp) IN
    IF decoded.err.isErr
    THEN [out |-> resp, err |-> NoError]
    ELSE LET pretty == JSONMarshalIndentAny(decoded.value) IN
         IF pretty.err.isErr
         THEN [out |-> "", err |-> pretty.err]
         ELSE [out |-> pretty.text, err |-> NoError]

\* fatal: one [error] line, then os.Exit(1)
FatalLine(prefix, e) == "[error] " \o prefix \o e.msg

\* help: the usage line, then os.Exit(0)
HelpLine == "usage: " \o cliFormatExpected

----------------------------------------------------------------------------
(* the JSON-body variants of ToHTTPRequest: internal/http (the method is
   always GET, Header.Set) and the older package internal (the method is
   r.HTTPMethod, Header.Add) *)

\* a value of a type json.Marshal refuses (a channel)
JChan == [kind |-> "chan", text |-> "", fields |-> EmptyMap]

\* Request.Body, a map[string]any: nil, or a map of values
NilMap == [nil |-> TRUE, fields |-> EmptyMap]
BodyMap(fields) == [nil |-> FALSE, fields |-> fields]

\* json.Marshal can encode the value
RECURSIVE Marshalable(_)
Marshalable(v) ==
    /\ v.kind # "chan"
    /\ \A k \in DOMAIN v.fields : Marshalable(v.fields[k])

\* the text json.Marshal writes for a value: no spaces, keys sorted (the
\* strings of this model hold no character that Marshal escapes)
RECURSIVE EncodeCompact(_)
RECURSIVE EncodeCompactMembers(_, _)
EncodeCompactMembers(fields, keys) ==
    IF Len(keys) = 0 THEN ""
    ELSE "\"" \o Head(keys) \o "\":" \o EncodeCompact(fields[Head(keys)])
             \o (IF Len(keys) > 1 THEN "," ELSE "")
             \o EncodeCompactMembers(fields, Tail(keys))
EncodeCompact(v) ==
    CASE v.kind = "null" -> "null"
      [] v.kind = "number" -> v.text
      [] v.kind = "string" -> "\"" \o v.text \o "\""
      [] OTHER -> "{" \o EncodeCompactMembers(v.fields, SortedKeys(DOMAIN v.fields)) \o "}"

\* json.Marshal(r.Body)
JSONMarshalMap(body) ==
    IF body.nil THEN [text |-> "null", err |-> NoError]
    ELSE IF \E k \in DOMAIN body.fields : ~Marshalable(body.fields[k])
    THEN [text |-> "", err |-> NewError("json: unsupported type: chan int", {})]
    ELSE [text |-> EncodeCompact(JObject(body.fields)), err |-> NoError]

\* http.Header.Add: the value is appended under the canonical name
HeaderAdd(h, k, v) ==
    Put(h, CanonicalMIMEHeaderKey(k),
        IF CanonicalMIMEHeaderKey(k) \in DOMAIN h
        THEN Append(h[CanonicalMIMEHeaderKey(k)], v)
        ELSE <<v>>)

\* for k, v := range m { req.Header.Add(k, v) }
RECURSIVE AddHeaders(_, _, _)
AddHeaders(h, m, order) ==
    IF Len(order) = 0 THEN h
    ELSE AddHeaders(HeaderAdd(h, Head(order), m[Head(order)]), m, Tail(order))

\* variant: the body is not sent
ToHTTPRequestJSONBodyNoBody(r, config, configOrder, requestOrder) ==
    LET body == JSONMarshalMap(r.Body) IN
    IF body.err.isErr
    THEN [req |-> NilRequest, err |-> body.err]
    ELSE LET b == HTTPNewRequest(MethodGet, config.Domain \o "/" \o r.Path, NilBody) IN
         IF b.err.isErr
         THEN [req |-> NilRequest, err |-> b.err]
         ELSE LET h0 == HeaderSet(b.req.Header, "Content-Type", "application/json")
                  h1 == SetHeaders(h0, config.Headers, configOrder)
                  h2 == SetHeaders(h1, r.Headers, requestOrder)
              IN  [req |-> [b.req EXCEPT !.Header = h2], err |-> NoError]

\* Request.ToHTTPRequest of internal/http, JSON-body variant
ToHTTPRequestJSONBody(r, config, configOrder, requestOrder) ==
    LET body == JSONMarshalMap(r.Body) IN
    IF body.err.isErr
    THEN [req |-> NilRequest, err |-> body.err]
    ELSE LET b == HTTPNewRequest(MethodGet, config.Domain \o "/" \o r.Path,
                                 [present |-> TRUE, bytes |-> body.text]) IN
         IF b.err.isErr
         THEN [req |-> NilRequest, err |-> b.err]
         ELSE LET h0 == HeaderSet(b.req.Header, "Content-Type", "application/json")
                  h1 == SetHeaders(h0, config.Headers, configOrder)
                  h2 == SetHeaders(h1, r.Headers, requestOrder)
              IN  [req |-> [b.req EXCEPT !.Header = h2], err |-> NoError]

\* Request.ToHTTPRequest of package internal (request.go)
ToHTTPRequestLegacy(r, config, configOrder, requestOrder) ==
    LET body == JSONMarshalMap(r.Body) IN
    IF body.err.isErr
    THEN [req |-> NilRequest, err |-> body.err]
    ELSE LET b == HTTPNewRequest(r.HTTPMethod, config.Domain \o "/" \o r.Path,
                                 [present |-> TRUE, bytes |-> body.text]) IN
         IF b.err.isErr
         THEN [req |-> NilRequest, err |-> b.err]
         ELSE LET h0 == HeaderSet(b.req.Header, "Content-Type", "application/json")
                  h1 == AddHeaders(h0, config.Headers, configOrder)
                  h2 == AddHeaders(h1, r.Headers, requestOrder)
              IN  [req |-> [b.req EXCEPT !.Header = h2], err |-> NoError]

----------------------------------------------------------------------------
(* Inputs of a run *)

Aliases == {"httpbin", "Httpbin", "api", "local", "bad"}
MethodTokens == {"get", "delete", "GET", "Delete", "post", "users"}
RestTokens == {"users", "", "--include", "--", "-v"}

RestSeqs == UNION {[1..n -> RestTokens] : n \in 0..MaxRest}

\* the command line of the README
ReadmeArgs == <<"httpbin", "users", "456", "profile", "--include", "posts,comments">>

ArgLists ==
    {<<>>} \cup {<<a>> : a \in Aliases}
    \cup {<<a, m>> \o r : a \in Aliases, m \in MethodTokens, r \in RestSeqs}
    \cup {ReadmeArgs}

\* a config file the user has edited
customSetting ==
    [a \in {"httpbin", "api", "local", "bad"} |->
        IF a = "httpbin" THEN defaultSetting["httpbin"]
        ELSE IF a = "bad"
        THEN [url |-> "http://bad host", defaultHeaders |-> EmptyMap]
        ELSE IF a = "local"
        THEN [url |-> "http://localhost:8080/", defaultHeaders |-> EmptyMap]
        ELSE [url |-> "https://api.example.com",
              defaultHeaders |->
                  [h \in {"Authorization", "content-type"} |->
                      IF h = "Authorization" THEN "Bearer t" ELSE "text/plain"]]]

\* a disk state: the folder, the file, its bytes and what the file system
\* refuses
Disk(dir, file, data, fault) ==
    [dir |-> dir, file |-> file, data |-> data, fault |-> fault]

\* the disk states the program is started on: a working file system holding
\* nothing, the folder, or a default, edited or malformed file; a read-only
\* one holding nothing or the folder; a full one holding the folder; and an
\* edited file that cannot be read
DiskStates ==
    {Disk(FALSE, FALSE, NotJSON, "none"),
     Disk(TRUE, FALSE, NotJSON, "none"),
     Disk(TRUE, TRUE, JSONMarshalIndent(defaultSetting), "none"),
     Disk(TRUE, TRUE, JSONMarshalIndent(customSetting), "none"),
     Disk(TRUE, TRUE, NotJSON, "none"),
     Disk(FALSE, FALSE, NotJSON, "readonly"),
     Disk(TRUE, FALSE, NotJSON, "readonly"),
     Disk(TRUE, FALSE, NotJSON, "full"),
     Disk(TRUE, TRUE, JSONMarshalIndent(customSetting), "unreadable")}

NoResult == [req |-> NilRequest, err |-> NoError]

----------------------------------------------------------------------------
(* main, one action per call it makes *)

Init ==
    /\ args \in ArgLists
    /\ fs \in DiskStates
    /\ pc = "NewAction"
    /\ action = ZeroAction
    /\ err = NoError
    /\ setting = ZeroSetting
    /\ request = ActionRequest(ZeroAction)
    /\ built = NoResult
    /\ sent = 0
    /\ response = ""
    /\ stdout = <<>>
    /\ exitCode = -1
    /\ network = NoOutcome
    /\ call = NoCall
    /\ result = <<>>

\* variant: the settings are loaded before the tokens are looked at
MainNewActionLoadsFirst ==
    /\ pc = "NewAction"
    /\ fs' = GetSettings(fs).fs
    /\ LET r == NewAction(args) IN
       /\ action' = r.action
       /\ err' = r.err
       /\ IF r.err.isErr
          THEN IF ErrorsIs(r.err, errInvalidFormat)
               THEN /\ stdout' = Append(stdout, HelpLine)
                    /\ exitCode' = 0
                    /\ pc' = "exited"
               ELSE /\ stdout' = Append(stdout,
                            FatalLine("failed to build action from arguments: ", r.err))
                    /\ exitCode' = 1
                    /\ pc' = "exited"
          ELSE /\ pc' = "Setting"
               /\ UNCHANGED <<stdout, exitCode>>
    /\ UNCHANGED <<args, setting, request, built, sent, response, network, call, result>>

\* main.go 19-27
MainNewAction ==
    /\ pc = "NewAction"
    /\ LET r == NewAction(args) IN
       /\ action' = r.action
       /\ err' = r.err
       /\ IF r.err.isErr
          THEN IF ErrorsIs(r.err, errInvalidFormat)
               THEN /\ stdout' = Append(stdout, HelpLine)
                    /\ exitCode' = 0
                    /\ pc' = "exited"
               ELSE /\ stdout' = Append(stdout,
                            FatalLine("failed to build action from arguments: ", r.err))
                    /\ exitCode' = 1
                    /\ pc' = "exited"
          ELSE /\ pc' = "Setting"
               /\ UNCHANGED <<stdout, exitCode>>
    /\ UNCHANGED <<args, fs, setting, request, built, sent, response, network, call, result>>

\* variant: the error of the setting is printed and the run goes on
MainSettingContinue ==
    /\ pc = "Setting"
    /\ request' = ActionRequest(action)
    /\ LET r == ActionSetting(action, fs) IN
       /\ fs' = r.fs
       /\ setting' = r.setting
       /\ err' = r.err
       /\ stdout' = IF r.err.isErr
                    THEN Append(stdout, FatalLine("failed to load setting: ", r.err))
                    ELSE stdout
       /\ pc' = "ToHTTPRequest"
    /\ UNCHANGED <<args, action, built, sent, response, network, call, result, exitCode>>

\* main.go 29-33
MainSetting ==
    /\ pc = "Setting"
    /\ request' = ActionRequest(action)
    /\ LET r == ActionSetting(action, fs) IN
       /\ fs' = r.fs
       /\ setting' = r.setting
       /\ err' = r.err
       /\ IF r.err.isErr
          THEN /\ stdout' = Append(stdout, FatalLine("failed to load setting: ", r.err))
               /\ exitCode' = 1
               /\ pc' = "exited"
          ELSE /\ pc' = "ToHTTPRequest"
               /\ UNCHANGED <<stdout, exitCode>>
    /\ UNCHANGED <<args, action, built, sent, response, network, call, result>>

\* main.go 35-38
MainToHTTPRequest ==
    /\ pc = "ToHTTPRequest"
    /\ \E ao \in RangeOrders(request.Arguments),
          so \in RangeOrders(setting.Headers),
          ro \in RangeOrders(request.Headers) :
          LET r == ToHTTPRequest(request, setting, ao, so, ro) IN
          /\ built' = r
          /\ err' = r.err
          /\ IF r.err.isErr
             THEN /\ stdout' = Append(stdout,
                          FatalLine("failed to build request: ", r.err))
                  /\ exitCode' = 1
                  /\ pc' = "exited"
             ELSE /\ pc' = "Execute"
                  /\ UNCHANGED <<stdout, exitCode>>
    /\ UNCHANGED <<args, action, fs, setting, request, sent, response, network, call, result>>

\* main.go 40-43
MainExecute ==
    /\ pc = "Execute"
    /\ \E o \in NetworkOutcomes :
          LET r == Execute(o) IN
          /\ network' = o
          /\ sent' = sent + r.calls
          /\ response' = r.body
          /\ err' = r.err
          /\ IF r.err.isErr
             THEN /\ stdout' = Append(stdout,
                          FatalLine("failed to execute request: ", r.err))
                  /\ exitCode' = 1
                  /\ pc' = "exited"
             ELSE /\ pc' = "prettyResponse"
                  /\ UNCHANGED <<stdout, exitCode>>
    /\ UNCHANGED <<args, action, fs, setting, request, built, call, result>>

\* main.go 45-51
MainPrint ==
    /\ pc = "prettyResponse"
    /\ LET r == prettyResponse(response) IN
       /\ err' = r.err
       /\ stdout' = stdout \o (IF r.err.isErr THEN <<r.err.msg>> ELSE <<>>) \o <<r.out>>
    /\ exitCode' = 0
    /\ pc' = "done"
    /\ UNCHANGED <<args, action, fs, setting, request, built, sent, response, network,
                   call, result>>

Next ==
    \/ MainNewAction
    \/ MainSetting
    \/ MainToHTTPRequest
    \/ MainExecute
    \/ MainPrint

Spec == Init /\ [][Next]_vars

----------------------------------------------------------------------------
(* Request.ToHTTPRequest called on its own, as the package's tests call it *)

SettingHeaderNames == {"A", "B", "Authorization", "content-type", "X y"}
RequestHeaderNames == {"B", "C", "Authorization", "authorization", "Content-Type", "x y"}
SettingHeaderValues == {"1", "2"}
RequestHeaderValues == {"3", "4"}

\* the maps from at most n of the keys to the values
MapsUpTo(keys, values, n) ==
    UNION {[d -> values] : d \in {x \in SUBSET keys : Cardinality(x) <= n}}

RequestMethods == {"get", "GET", "Get", "delete", "DELETE", "dElEtE", "post", "POST", "", "gets"}
ArgumentMaps == MapsUpTo({"force", ""}, {"true", ""}, MaxArguments)

\* the requests and settings the call is made with: every header map pair on
\* one request line, and every method, path and argument map on one header pair
HarnessCalls ==
    {[r |-> [Path |-> "users", Method |-> "get", Headers |-> rh, Arguments |-> EmptyMap],
      s |-> [URL |-> "https://api.example.com", Headers |-> sh]] :
        rh \in MapsUpTo(RequestHeaderNames, RequestHeaderValues, MaxHeaders),
        sh \in MapsUpTo(SettingHeaderNames, SettingHeaderValues, MaxHeaders)}
    \cup
    {[r |-> [Path |-> p, Method |-> m, Headers |-> EmptyMap, Arguments |-> q],
      s |-> [URL |-> "https://httpbin.dev/anything",
             Headers |-> defaultSetting["httpbin"].defaultHeaders]] :
        p \in {"", "posts/123"}, m \in RequestMethods, q \in ArgumentMaps}

InitRequest ==
    /\ \E c \in HarnessCalls : request = c.r /\ setting = c.s
    /\ pc = "call"
    /\ args = <<>>
    /\ fs = Disk(FALSE, FALSE, NotJSON, "none")
    /\ action = ZeroAction
    /\ err = NoError
    /\ built = NoResult
    /\ sent = 0
    /\ response = ""
    /\ stdout = <<>>
    /\ exitCode = -1
    /\ network = NoOutcome
    /\ call = NoCall
    /\ result = <<>>

CallToHTTPRequest ==
    /\ pc = "call"
    /\ \E ao \in RangeOrders(request.Arguments),
          so \in RangeOrders(setting.Headers),
          ro \in RangeOrders(request.Headers) :
          LET r == ToHTTPRequest(request, setting, ao, so, ro) IN
          /\ built' = r
          /\ err' = r.err
    /\ pc' = "returned"
    /\ UNCHANGED <<args, action, fs, setting, request, sent, response, stdout, exitCode,
                   network, call, result>>

NextRequest == CallToHTTPRequest

SpecRequest == InitRequest /\ [][NextRequest]_vars

----------------------------------------------------------------------------
(* the JSON-body variants called on their own, as their test calls them *)

BodyPaths == {"", "users"}

\* nil, an empty map, maps of strings and numbers, a nested map, and a map
\* holding a channel
Bodies ==
    {NilMap,
     BodyMap(EmptyMap),
     BodyMap([k \in {"name"} |-> JString("John Doe")]),
     BodyMap([k \in {"name", "age"} |->
                 IF k = "age" THEN JNumber("30") ELSE JString("John Doe")]),
     BodyMap([k \in {"user", "meta"} |->
                 IF k = "user" THEN JObject([n \in {"name"} |-> JString("Jane")])
                 ELSE JObject([n \in {"version"} |-> JNumber("1.2")])]),
     BodyMap([k \in {"invalid"} |-> JChan]),
     BodyMap([k \in {"meta"} |-> JObject([n \in {"invalid"} |-> JChan])])}

BodyHeaderMaps(values) == MapsUpTo({"Authorization", "authorization"}, values, 1)

LegacyMethods == {"", "GET", "get", "POST", "DELETE"}

\* call.fn tells the package: http (url.go) or internal (request.go)
BodyCalls ==
    {[fn |-> "http",
      r |-> [Path |-> p, Headers |-> rh, Body |-> b],
      config |-> [Domain |-> "https://api.example.com", Headers |-> ch]] :
        p \in BodyPaths, b \in Bodies,
        rh \in BodyHeaderMaps({"3"}), ch \in BodyHeaderMaps({"1"})}
    \cup
    {[fn |-> "internal",
      r |-> [Path |-> p, HTTPMethod |-> m, Headers |-> rh, Body |-> b],
      config |-> [Domain |-> "https://api.example.com", Headers |-> ch]] :
        p \in BodyPaths, m \in LegacyMethods, b \in Bodies,
        rh \in BodyHeaderMaps({"3"}), ch \in BodyHeaderMaps({"1"})}

InitBody ==
    /\ call \in BodyCalls
    /\ pc = "call"
    /\ built = NoResult
    /\ err = NoError
    /\ result = <<>>
    /\ args = <<>>
    /\ fs = Disk(FALSE, FALSE, NotJSON, "none")
    /\ action = ZeroAction
    /\ setting = ZeroSetting
    /\ request = ActionRequest(ZeroAction)
    /\ sent = 0
    /\ response = ""
    /\ stdout = <<>>
    /\ exitCode = -1
    /\ network = NoOutcome

CallToHTTPRequestJSONBody ==
    /\ pc = "call"
    /\ call.fn = "http"
    /\ \E co \in RangeOrders(call.config.Headers), ro \in RangeOrders(call.r.Headers) :
          LET r == ToHTTPRequestJSONBody(call.r, call.config, co, ro) IN
          /\ built' = r
          /\ err' = r.err
    /\ pc' = "returned"
    /\ UNCHANGED <<args, action, fs, setting, request, sent, response, stdout, exitCode,
                   network, call, result>>

CallToHTTPRequestLegacy ==
    /\ pc = "call"
    /\ call.fn = "internal"
    /\ \E co \in RangeOrders(call.config.Headers), ro \in RangeOrders(call.r.Headers) :
          LET r == ToHTTPRequestLegacy(call.r, call.config, co, ro) IN
          /\ built' = r
          /\ err' = r.err
    /\ pc' = "returned"
    /\ UNCHANGED <<args, action, fs, setting, request, sent, response, stdout, exitCode,
                   network, call, result>>

NextBody == CallToHTTPRequestJSONBody \/ CallToHTTPRequestLegacy

SpecBody == InitBody /\ [][NextBody]_vars

----------------------------------------------------------------------------
(* NewAction followed token by token: call holds the position in args and the
   two locals of the loop, action the Action under construction *)

InitScan ==
    /\ args \in ArgLists
    /\ pc = "enter"
    /\ call = NoCall
    /\ result = <<>>
    /\ action = ZeroAction
    /\ err = NoError
    /\ fs = Disk(FALSE, FALSE, NotJSON, "none")
    /\ setting = ZeroSetting
    /\ request = ActionRequest(ZeroAction)
    /\ built = NoResult
    /\ sent = 0
    /\ response = ""
    /\ stdout = <<>>
    /\ exitCode = -1
    /\ network = NoOutcome

ScanFrame ==
    UNCHANGED <<args, fs, setting, request, built, sent, response, stdout, exitCode,
                network, result>>

\* action.go 32-46: the two checks and the Action the loop starts from
ScanEnter ==
    /\ pc = "enter"
    /\ IF Len(args) < 2
       THEN /\ err' = NewError(errInvalidFormat.msg \o ": empty arguments",
                               errInvalidFormat.wraps)
            /\ pc' = "returned"
            /\ UNCHANGED <<action, call>>
       ELSE IF validateHTTPMethod(args[2]).isErr
       THEN /\ err' = NewError("unsuported http method: "
                                   \o validateHTTPMethod(args[2]).msg, {})
            /\ pc' = "returned"
            /\ UNCHANGED <<action, call>>
       ELSE /\ action' = LoopStart(args).request
            /\ call' = [fn |-> "NewAction", i |-> 3,
                        readingFlag |-> LoopStart(args).readingFlag,
                        lastFlag |-> LoopStart(args).lastFlag]
            /\ pc' = "loop"
            /\ UNCHANGED err
    /\ ScanFrame

\* action.go 48-64: one token
ScanToken ==
    /\ pc = "loop"
    /\ call.i <= Len(args)
    /\ LET st == LoopStep(args[call.i],
                          [readingFlag |-> call.readingFlag, lastFlag |-> call.lastFlag,
                           request |-> action])
       IN  /\ action' = st.request
           /\ call' = [fn |-> "NewAction", i |-> call.i + 1,
                       readingFlag |-> st.readingFlag, lastFlag |-> st.lastFlag]
    /\ UNCHANGED <<pc, err>>
    /\ ScanFrame

\* action.go 66: return request, nil
ScanReturn ==
    /\ pc = "loop"
    /\ call.i > Len(args)
    /\ pc' = "returned"
    /\ UNCHANGED <<action, call, err>>
    /\ ScanFrame

NextScan == ScanEnter \/ ScanToken \/ ScanReturn

SpecScan == InitScan /\ [][NextScan]_vars

----------------------------------------------------------------------------
(* Path and QueryString.ToURL called on their own, as the tests of
   internal/url.go call them *)

PathTokens == {"api", "", "users"}
FlagKeys == {"a", "b", "x&y", "k=1"}
FlagValues == {"1", "", "b&c", "d=e"}

PathComponentSeqs == UNION {[1..n -> PathTokens] : n \in 0..MaxComponents}
FlagMaps == MapsUpTo(FlagKeys, FlagValues, MaxFlags)

PathCalls ==
    {[fn |-> "url", components |-> c, query |-> q] :
        c \in PathComponentSeqs, q \in FlagMaps}

InitPath ==
    /\ call \in PathCalls
    /\ result = <<>>
    /\ pc = "call"
    /\ args = <<>>
    /\ fs = Disk(FALSE, FALSE, NotJSON, "none")
    /\ action = ZeroAction
    /\ err = NoError
    /\ setting = ZeroSetting
    /\ request = ActionRequest(ZeroAction)
    /\ built = NoResult
    /\ sent = 0
    /\ response = ""
    /\ stdout = <<>>
    /\ exitCode = -1
    /\ network = NoOutcome

CallPath ==
    /\ pc = "call"
    /\ call.fn = "url"
    /\ \E order \in RangeOrders(call.query) :
          result' = [fn |-> "Path", value |-> Path(call.components, call.query, order)]
    /\ pc' = "returned"
    /\ UNCHANGED <<args, action, err, fs, setting, request, built, sent, response,
                   stdout, exitCode, network, call>>

CallQueryStringToURL ==
    /\ pc = "call"
    /\ call.fn = "url"
    /\ \E order \in RangeOrders(call.query) :
          result' = [fn |-> "ToURL", value |-> QueryStringToURL(call.query, order)]
    /\ pc' = "returned"
    /\ UNCHANGED <<args, action, err, fs, setting, request, built, sent, response,
                   stdout, exitCode, network, call>>

NextPath == CallPath \/ CallQueryStringToURL

SpecPath == InitPath /\ [][NextPath]_vars

----------------------------------------------------------------------------
(* the config functions called on their own, as the tests of
   internal/config call them on files they have prepared *)

\* the states of the config path a test prepares: nothing, the folder alone,
\* and files holding the default, an edited setting, {} and text that is not
\* JSON; with them, existing files on a file system that refuses changes
ConfigFiles ==
    DiskStates \cup {Disk(TRUE, TRUE, JSONMarshalIndent(EmptyMap), "none"),
                     Disk(TRUE, TRUE, JSONMarshalIndent(defaultSetting), "readonly"),
                     Disk(TRUE, TRUE, NotJSON, "unreadable"),
                     Disk(TRUE, TRUE, JSONMarshalIndent(customSetting), "full")}

InitLoad ==
    /\ fs \in ConfigFiles
    /\ result = <<>>
    /\ call = NoCall
    /\ pc = "test"
    /\ args = <<>>
    /\ action = ZeroAction
    /\ err = NoError
    /\ setting = ZeroSetting
    /\ request = ActionRequest(ZeroAction)
    /\ built = NoResult
    /\ sent = 0
    /\ response = ""
    /\ stdout = <<>>
    /\ exitCode = -1
    /\ network = NoOutcome

\* the test writes or removes the file before the next call
PrepareFile ==
    /\ pc = "test"
    /\ Len(result) < MaxCalls
    /\ \E d \in ConfigFiles : fs' = d
    /\ UNCHANGED <<args, pc, action, err, setting, request, built, sent, response,
                   stdout, exitCode, network, call, result>>

CallLoadSettingFromFile ==
    /\ pc = "test"
    /\ Len(result) < MaxCalls
    /\ LET r == loadSettingFromFile(fs) IN
       /\ fs' = r.fs
       /\ result' = Append(result,
              [fn |-> "loadSettingFromFile", before |-> fs, after |-> r.fs,
               value |-> r.value, nil |-> r.nil, err |-> r.err])
    /\ UNCHANGED <<args, pc, action, err, setting, request, built, sent, response,
                   stdout, exitCode, network, call>>

CallGetSettings ==
    /\ pc = "test"
    /\ Len(result) < MaxCalls
    /\ LET r == GetSettings(fs) IN
       /\ fs' = r.fs
       /\ result' = Append(result,
              [fn |-> "GetSettings", before |-> fs, after |-> r.fs,
               value |-> r.settings, nil |-> FALSE, err |-> r.err])
    /\ UNCHANGED <<args, pc, action, err, setting, request, built, sent, response,
                   stdout, exitCode, network, call>>

CallCreateDefaultSetting ==
    /\ pc = "test"
    /\ Len(result) < MaxCalls
    /\ LET r == createDefaultSetting(fs) IN
       /\ fs' = r.fs
       /\ result' = Append(result,
              [fn |-> "createDefaultSetting", before |-> fs, after |-> r.fs,
               value |-> EmptyMap, nil |-> FALSE, err |-> r.err])
    /\ UNCHANGED <<args, pc, action, err, setting, request, built, sent, response,
                   stdout, exitCode, network, call>>

NextLoad ==
    \/ PrepareFile
    \/ CallLoadSettingFromFile
    \/ CallGetSettings
    \/ CallCreateDefaultSetting

SpecLoad == InitLoad /\ [][NextLoad]_vars

----------------------------------------------------------------------------
(* two invocations of the program loading the setting at the same time: each
   system call of loadSettingFromFile and createDefaultSetting is one step on
   the shared file system *)

Invocations == {1, 2}

\* an invocation that has not called os.Stat yet
NotLoaded ==
    [step |-> "Stat", data |-> NotJSON, value |-> EmptyMap, nil |-> TRUE, err |-> NoError]

\* call keeps the state of the disk the two invocations started on
InitConcurrent ==
    /\ fs \in DiskStates
    /\ result = [p \in Invocations |-> NotLoaded]
    /\ call = [fn |-> "loadSettingFromFile", before |-> fs]
    /\ pc = "loading"
    /\ args = <<>>
    /\ action = ZeroAction
    /\ err = NoError
    /\ setting = ZeroSetting
    /\ request = ActionRequest(ZeroAction)
    /\ built = NoResult
    /\ sent = 0
    /\ response = ""
    /\ stdout = <<>>
    /\ exitCode = -1
    /\ network = NoOutcome

\* what a step of the load leaves alone
LoadFrame ==
    UNCHANGED <<args, pc, action, err, setting, request, built, sent, response,
                stdout, exitCode, network, call>>

\* os.Stat(filePath); os.IsNotExist(err)
StepStat ==
    \E p \in Invocations :
        /\ result[p].step = "Stat"
        /\ result' = [result EXCEPT ![p].step =
                          IF fs.file THEN "ReadFile" ELSE "MarshalIndent"]
        /\ UNCHANGED fs
        /\ LoadFrame

\* json.MarshalIndent(defaultSetting, "", "  ")
StepMarshalIndent ==
    \E p \in Invocations :
        /\ result[p].step = "MarshalIndent"
        /\ result' = [result EXCEPT ![p].step = "MkdirAll",
                                    ![p].data = JSONMarshalIndent(defaultSetting)]
        /\ UNCHANGED fs
        /\ LoadFrame

\* the early return of loadSettingFromFile with createErr
ReturnCreateErr(r, e) == [r EXCEPT !.step = "returned", !.nil = TRUE, !.err = e]

\* os.MkdirAll(filepath.Dir(filePath), 0755)
StepMkdirAll ==
    \E p \in Invocations :
        /\ result[p].step = "MkdirAll"
        /\ LET made == osMkdirAll(fs) IN
           /\ fs' = made.fs
           /\ result' = [result EXCEPT
                  ![p] = IF made.err.isErr
                         THEN ReturnCreateErr(@, made.err)
                         ELSE [@ EXCEPT !.step = "OpenFile"]]
        /\ LoadFrame

\* os.WriteFile, first half: OpenFile(name, O_WRONLY|O_CREATE|O_TRUNC, perm)
StepOpenFile ==
    \E p \in Invocations :
        /\ result[p].step = "OpenFile"
        /\ LET opened == osOpenFile(fs) IN
           /\ fs' = opened.fs
           /\ result' = [result EXCEPT
                  ![p] = IF opened.err.isErr
                         THEN ReturnCreateErr(@, opened.err)
                         ELSE [@ EXCEPT !.step = "Write"]]
        /\ LoadFrame

\* os.WriteFile, second half: f.Write(data) at offset 0, f.Close()
StepWrite ==
    \E p \in Invocations :
        /\ result[p].step = "Write"
        /\ LET written == osWrite(fs, result[p].data) IN
           /\ fs' = written.fs
           /\ result' = [result EXCEPT
                  ![p] = IF written.err.isErr
                         THEN ReturnCreateErr(@, written.err)
                         ELSE [@ EXCEPT !.step = "ReadFile"]]
        /\ LoadFrame

\* os.ReadFile(filePath)
StepReadFile ==
    \E p \in Invocations :
        /\ result[p].step = "ReadFile"
        /\ LET read == osReadFile(fs) IN
           result' = [result EXCEPT
               ![p] = IF read.err.isErr
                      THEN [@ EXCEPT !.step = "returned", !.nil = TRUE,
                               !.err = NewError("failed to read config file: "
                                                    \o read.err.msg, read.err.wraps)]
                      ELSE [@ EXCEPT !.step = "Unmarshal", !.data = read.data]]
        /\ UNCHANGED fs
        /\ LoadFrame

\* json.Unmarshal(data, &configs) and the return
StepUnmarshal ==
    \E p \in Invocations :
        /\ result[p].step = "Unmarshal"
        /\ LET parsed == JSONUnmarshal(result[p].data) IN
           result' = [result EXCEPT
               ![p] = IF parsed.err.isErr
                      THEN [@ EXCEPT !.step = "returned", !.nil = TRUE,
                               !.err = NewError("failed to parse JSON: " \o parsed.err.msg,
                                                parsed.err.wraps)]
                      ELSE [@ EXCEPT !.step = "returned", !.nil = FALSE,
                               !.value = parsed.value]]
        /\ UNCHANGED fs
        /\ LoadFrame

NextConcurrent ==
    \/ StepStat
    \/ StepMarshalIndent
    \/ StepMkdirAll
    \/ StepOpenFile
    \/ StepWrite
    \/ StepReadFile
    \/ StepUnmarshal

SpecConcurrent == InitConcurrent /\ [][NextConcurrent]_vars

----------------------------------------------------------------------------
(* Properties *)

\* main has returned or called os.Exit
Finished == pc \in {"exited", "done"}

\* the config file is absent or holds the default settings
DefaultConfiguration == ~fs.file \/ fs.data = JSONMarshalIndent(defaultSetting)

\* C1: the README command line (httpbin users 456 profile --include
\* posts,comments) against the default configuration ends with path
\* users/456/profile, flags {include: posts,comments} and one GET request to
\* https://httpbin.dev/anything/users/456/profile?include=posts,comments that
\* carries authorization: 123.
C1_ReadmeCommandSendsGet ==
    (args = ReadmeArgs /\ DefaultConfiguration /\ Finished) =>
        /\ Join(action.URLPathComponents, "/") = "users/456/profile"
        /\ action.Options = [k \in {"include"} |-> "posts,comments"]
        /\ ~built.req.nil
        /\ built.req.Method = "GET"
        /\ built.req.URL =
               "https://httpbin.dev/anything/users/456/profile?include=posts,comments"
        /\ HeaderGet(built.req.Header, "authorization") = "123"
        /\ sent = 1

\* ToHTTPRequest has returned a request to the harness
Returned == pc = "returned" /\ ~built.err.isErr

\* the value the claim C2 gives header k: R's, else C's, else the JSON type
ClaimedHeaderValue(k) ==
    IF k \in DOMAIN request.Headers THEN request.Headers[k]
    ELSE IF k \in DOMAIN setting.Headers THEN setting.Headers[k]
    ELSE "application/json"

\* C2 as stated: every header named in C, in R or Content-Type has R's value
\* if R has that key, else C's if C has it, else application/json, and one
\* value only.
C2_Original ==
    Returned =>
        /\ \A k \in DOMAIN request.Headers \cup DOMAIN setting.Headers \cup {"Content-Type"} :
               HeaderGet(built.req.Header, k) = ClaimedHeaderValue(k)
        /\ \A n \in DOMAIN built.req.Header : Len(built.req.Header[n]) = 1

\* the keys of map m whose canonical header name is n
KeysNamed(m, n) == {k \in DOMAIN m : CanonicalMIMEHeaderKey(k) = n}

\* C2 (amended): with header names compared in canonical form, the headers of
\* the built request are Content-Type: application/json overridden by C
\* overridden by R: a header's value is that of a key of R with its name if
\* there is one, else that of a key of C with its name, else (Content-Type)
\* application/json; every name of C and R is present and no header carries
\* more than one value.
C2_HeaderMergeRightBiased ==
    Returned =>
        LET h == built.req.Header
            R == request.Headers
            C == setting.Headers
        IN  /\ DOMAIN h = {CanonicalMIMEHeaderKey(k) : k \in DOMAIN R \cup DOMAIN C}
                              \cup {"Content-Type"}
            /\ \A n \in DOMAIN h :
                   /\ Len(h[n]) = 1
                   /\ IF KeysNamed(R, n) # {}
                      THEN h[n][1] \in {R[k] : k \in KeysNamed(R, n)}
                      ELSE IF KeysNamed(C, n) # {}
                      THEN h[n][1] \in {C[k] : k \in KeysNamed(C, n)}
                      ELSE n = "Content-Type" /\ h[n][1] = "application/json"

\* C2 witness: config headers {A, B} and request headers {B, C} were merged
\* and B carries the request's value.
C2_Witness ==
    /\ Returned
    /\ DOMAIN setting.Headers = {"A", "B"}
    /\ DOMAIN request.Headers = {"B", "C"}
    /\ built.req.Header["B"] = <<request.Headers["B"]>>
    /\ built.req.Header["A"] = <<setting.Headers["A"]>>

\* the second token is get or delete in some letter case
MethodTokenAnyCase(a) == Len(a) >= 2 /\ ToLower(a[2]) \in {"get", "delete"}

\* C3: NewAction succeeds on every token sequence of length at least 2 whose
\* second token is get or delete in any letter case.
C3_AnyCaseMethodAccepted ==
    [][(pc = "NewAction" /\ MethodTokenAnyCase(args)) => ~err'.isErr]_vars

\* the tokens after the method that precede the first token starting with --
RECURSIVE TokensBeforeFirstFlag(_)
TokensBeforeFirstFlag(tokens) ==
    IF Len(tokens) = 0 \/ HasPrefix(Head(tokens), "--") THEN <<>>
    ELSE <<Head(tokens)>> \o TokensBeforeFirstFlag(Tail(tokens))

\* C4: when NewAction succeeds, URLPathComponents is exactly the run of tokens
\* after the method and before the first ---prefixed token, in order (empty
\* when a flag comes first or nothing follows the method).
C4_PathComponentsBeforeFirstFlag ==
    (pc = "Setting") =>
        action.URLPathComponents = TokensBeforeFirstFlag(SubSeq(args, 3, Len(args)))

\* C4 witness: a path token, then a flag, then a token that is the flag's
\* value and no path component.
C4_Witness ==
    /\ pc = "Setting"
    /\ Len(args) = 5
    /\ ~HasPrefix(args[3], "--") /\ HasPrefix(args[4], "--") /\ ~HasPrefix(args[5], "--")
    /\ action.URLPathComponents = <<args[3]>>

\* C5: NewAction's error matches errInvalidFormat exactly when fewer than 2
\* tokens are given (whatever the method token), the unsupported-method error
\* never matches it, and main answers the invalid-format error with the usage
\* line and exit code 0, with no [error] line.
C5_InvalidFormatShowsUsage ==
    [][(pc = "NewAction") =>
          /\ ErrorsIs(err', errInvalidFormat) <=> (Len(args) < 2)
          /\ (Len(args) >= 2 /\ err'.isErr) => ~ErrorsIs(err', errInvalidFormat)
          /\ (Len(args) < 2) =>
                 /\ pc' = "exited"
                 /\ exitCode' = 0
                 /\ stdout' = <<"usage: " \o cliFormatExpected>>
                 /\ \A i \in 1..Len(stdout') : ~HasPrefix(stdout'[i], "[error]")]_vars

\* C5 witness: a run with the alias alone ended with the usage line, code 0.
C5_Witness ==
    /\ Len(args) = 1
    /\ pc = "exited"
    /\ exitCode = 0
    /\ ErrorsIs(err, errInvalidFormat)
    /\ Len(stdout) = 1 /\ HasPrefix(stdout[1], "usage: ")

\* C6: for every token sequence of length at least 2 whose second token is
\* not an accepted method, NewAction returns the zero Action and an
\* unsupported-method error whose message names the accepted set get, delete.
C6_UnsupportedMethodNamed ==
    [][(pc = "NewAction" /\ Len(args) >= 2 /\ args[2] \notin {"get", "delete"}) =>
          /\ action' = ZeroAction
          /\ err'.isErr
          /\ HasPrefix(err'.msg, "unsuported http method")
          /\ Contains(err'.msg, "get, delete")]_vars

\* C6 witness: NewAction refused the method post.
C6_Witness ==
    /\ Len(args) >= 2 /\ args[2] = "post"
    /\ pc = "exited"
    /\ action = ZeroAction
    /\ Contains(err.msg, "only get, delete are supported")
    /\ exitCode = 1

\* C7: when the configuration loads, Action.Setting succeeds exactly when the
\* alias is, character for character, a key of the loaded map, and returns
\* that entry's URL and headers; otherwise it returns an error naming the
\* alias and the config file path, no other entry is used, the run exits with
\* code 1 and no request is ever built or sent.
C7_AliasExactMatchOrTerminal ==
    /\ [][(pc = "Setting" /\ ~GetSettings(fs).err.isErr) =>
             LET cfg == IF fs.file THEN fs.data.value ELSE defaultSetting
                 alias == action.URLAlias
             IN  IF alias \in DOMAIN cfg
                 THEN /\ ~err'.isErr
                      /\ setting' = [URL |-> cfg[alias].url,
                                     Headers |-> cfg[alias].defaultHeaders]
                      /\ pc' = "ToHTTPRequest"
                 ELSE /\ err'.isErr
                      /\ Contains(err'.msg, alias)
                      /\ Contains(err'.msg, defaultFilePath)
                      /\ setting' = ZeroSetting
                      /\ pc' = "exited"
                      /\ exitCode' = 1]_vars
    /\ []((pc = "exited" /\ action # ZeroAction /\ fs.file /\ fs.data.json
               /\ action.URLAlias \notin DOMAIN fs.data.value) =>
             (built.req.nil /\ sent = 0 /\ exitCode = 1))

\* C7 witness: the alias Httpbin missed the key httpbin and the run ended
\* with code 1 before any request.
C7_Witness ==
    /\ pc = "exited"
    /\ action.URLAlias = "Httpbin"
    /\ fs.file /\ fs.data.json /\ "httpbin" \in DOMAIN fs.data.value
    /\ Contains(err.msg, "no config found for Httpbin")
    /\ exitCode = 1 /\ sent = 0 /\ built.req.nil

\* C8: ToHTTPRequest returns an error and no request for every Method that is
\* neither GET nor DELETE when compared without regard to case (post, the
\* empty string), and a request for every Method that is GET or DELETE in any
\* case.
C8_OnlyGetAndDelete ==
    (pc = "returned") =>
        IF ToLower(request.Method) \in {"get", "delete"}
        THEN ~built.err.isErr /\ ~built.req.nil
        ELSE built.err.isErr /\ built.req.nil

\* C8 witness: Method post was refused with no request.
C8_Witness ==
    /\ pc = "returned"
    /\ request.Method = "post"
    /\ built.err.isErr /\ built.req.nil

\* C9: the built request's method is the canonical upper-case name whatever
\* the case of Request.Method (get gives GET, delete gives DELETE).
C9_MethodUpperCased ==
    Returned => built.req.Method = ToUpper(request.Method)

\* the part of url after its first ?
RECURSIVE AfterQuestionMark(_)
AfterQuestionMark(url) ==
    IF Len(url) = 0 THEN ""
    ELSE IF CharAt(url, 1) = "?"
         THEN (IF Len(url) = 1 THEN "" ELSE SubSeq(url, 2, Len(url)))
         ELSE AfterQuestionMark(SubSeq(url, 2, Len(url)))

\* C10: a request built for GET or DELETE carries no body, and every pair of
\* Arguments is in the query string of its URL: the query string is the one
\* transport of the arguments.
C10_NoBodyArgumentsInQuery ==
    Returned =>
        /\ ~built.req.Body.present
        /\ built.req.Body.bytes = ""
        /\ \A k \in DOMAIN request.Arguments :
               Contains(AfterQuestionMark(built.req.URL),
                        k \o "=" \o request.Arguments[k])
        /\ (request.Arguments = EmptyMap) => ~ContainsChar(built.req.URL, "?")

\* C10 witness: a DELETE with two arguments was built.
C10_Witness ==
    /\ Returned
    /\ request.Method = "delete"
    /\ Cardinality(DOMAIN request.Arguments) = 2
    /\ ContainsChar(built.req.URL, "&")

----------------------------------------------------------------------------
(* Path composition *)

\* the number of occurrences of the character c in s
RECURSIVE CountChar(_, _)
CountChar(s, c) ==
    IF Len(s) = 0 THEN 0
    ELSE (IF CharAt(s, 1) = c THEN 1 ELSE 0) + CountChar(SubSeq(s, 2, Len(s)), c)

\* the pairs of a map written key=value in the given order
PairsIn(q, order) == [i \in 1..Len(order) |-> order[i] \o "=" \o q[order[i]]]

PathReturned == pc = "returned" /\ result.fn = "Path"

\* C11: Path gives the components joined with "/" (empty components kept),
\* then "?" and the key=value pairs joined with "&" in some order exactly when
\* the map is non-empty; an empty map adds no "?"; n pairs are separated by
\* n-1 "&", and keys and values are copied as they are.
C11_PathJoinsComponentsAndPairs ==
    PathReturned =>
        LET q == call.query
            n == Cardinality(DOMAIN q)
            joined == Join(call.components, "/")
        IN  /\ \E o \in RangeOrders(q) :
                   result.value =
                       IF n = 0 THEN joined
                       ELSE joined \o "?" \o Join(PairsIn(q, o), "&")
            /\ (n = 0) <=> ~ContainsChar(result.value, "?")
            /\ (\A k \in DOMAIN q : ~ContainsChar(k, "&") /\ ~ContainsChar(q[k], "&"))
                   => CountChar(result.value, "&") = (IF n = 0 THEN 0 ELSE n - 1)
            /\ \A k \in DOMAIN q : Contains(result.value, k \o "=" \o q[k])

\* C11 witness: api, an empty component and users were composed with two
\* flags, one of them holding an ampersand.
C11_Witness ==
    /\ PathReturned
    /\ call.components = <<"api", "", "users">>
    /\ DOMAIN call.query = {"a", "b"}
    /\ call.query["a"] = "b&c"
    /\ HasPrefix(result.value, "api//users?")
    /\ CountChar(result.value, "&") = 2

\* strings.Split(s, c) as a set of pieces
RECURSIVE SplitSet(_, _)
SplitSet(s, c) ==
    IF ~ContainsChar(s, c) THEN {s}
    ELSE {Before(s, c)} \cup SplitSet(After(s, c), c)

\* the pairs read back from a query string: the pieces between "&", each cut
\* at its first "="; the empty string holds no pair
Resplit(s) ==
    IF s = "" THEN {}
    ELSE {<<Before(piece, "="), After(piece, "=")>> : piece \in SplitSet(s, "&")}

PairsOf(q) == {<<k, q[k]>> : k \in DOMAIN q}

ToURLReturned == pc = "returned" /\ result.fn = "ToURL"

\* C12 as first stated: for any flag map, re-splitting the serialized query
\* string recovers the original pairs.
C12_Original ==
    ToURLReturned => Resplit(result.value) = PairsOf(call.query)

\* the keys hold neither separator and the values hold no "&"
Resplittable(q) ==
    \A k \in DOMAIN q :
        /\ ~ContainsChar(k, "&")
        /\ ~ContainsChar(k, "=")
        /\ ~ContainsChar(q[k], "&")

\* C12: for a flag map whose keys hold neither "&" nor "=" and whose values
\* hold no "&", splitting the serialized query string by "&" and each piece
\* at its first "=" recovers exactly the original pairs, whatever the order.
C12_ResplitRecoversPairs ==
    (ToURLReturned /\ Resplittable(call.query))
        => Resplit(result.value) = PairsOf(call.query)

\* C12 witness: two pairs, one value holding "=", were serialized and read
\* back.
C12_Witness ==
    /\ ToURLReturned
    /\ DOMAIN call.query = {"a", "b"}
    /\ call.query["a"] = "d=e"
    /\ call.query["b"] = ""
    /\ Resplit(result.value) = {<<"a", "d=e">>, <<"b", "">>}

----------------------------------------------------------------------------
(* URL composition in the whole run *)

\* a request was built in this run
Built == pc \in {"Execute", "prettyResponse", "done", "exited"} /\ ~built.req.nil

\* C13: with no path component the URL of the built request is the base URL
\* followed by one "/" (then "?" and the query when there are flags), and the
\* URL holds no double slash besides the scheme separator and those of an
\* explicit empty path component.
C13_EmptyPathNoDoubleSlash ==
    Built =>
        /\ (action.URLPathComponents = <<>>) =>
               /\ HasPrefix(built.req.URL, setting.URL \o "/")
               /\ (action.Options = EmptyMap) => built.req.URL = setting.URL \o "/"
               /\ (action.Options # EmptyMap) =>
                      HasPrefix(built.req.URL, setting.URL \o "/?")
        /\ (\A i \in 1..Len(action.URLPathComponents) : action.URLPathComponents[i] # "")
               => ~Contains(AfterScheme(built.req.URL), "//")

----------------------------------------------------------------------------
(* the config file *)

\* the file holding exactly the default content
DefaultFile == Disk(TRUE, TRUE, JSONMarshalIndent(defaultSetting), "none")

\* the calls of loadSettingFromFile made so far
LoadCalls == {i \in 1..Len(result) : result[i].fn = "loadSettingFromFile"}

\* C14: a call of loadSettingFromFile on an absent file, on a file system
\* that lets the folder and the file be written, writes the default file
\* before reading, returns the default settings (httpbin with URL
\* https://httpbin.dev/anything and header authorization: 123) without error,
\* and leaves the file existing with exactly the default content; when the
\* file system refuses the write, the call returns that error and no setting.
C14_AbsentFileCreatesDefault ==
    pc = "test" =>
        \A i \in LoadCalls :
            /\ (~result[i].before.file /\ result[i].before.fault # "none") =>
                   /\ result[i].err.isErr
                   /\ result[i].err = createDefaultSetting(result[i].before).err
                   /\ result[i].nil
                   /\ result[i].value = EmptyMap
            /\ (~result[i].before.file /\ result[i].before.fault = "none") =>
                /\ ~result[i].err.isErr
                /\ ~result[i].nil
                /\ DOMAIN result[i].value = {"httpbin"}
                /\ result[i].value["httpbin"].url = "https://httpbin.dev/anything"
                /\ DOMAIN result[i].value["httpbin"].defaultHeaders = {"authorization"}
                /\ result[i].value["httpbin"].defaultHeaders["authorization"] = "123"
                /\ result[i].after = DefaultFile

\* C14 witness: loadSettingFromFile was called with neither the folder nor the
\* file there, and the file is there now.
C14_Witness ==
    /\ pc = "test"
    /\ Len(result) = 1
    /\ result[1].fn = "loadSettingFromFile"
    /\ ~result[1].before.dir
    /\ ~result[1].before.file
    /\ ~result[1].err.isErr
    /\ fs.file

\* C16: on an existing file whose content is not valid JSON,
\* loadSettingFromFile returns nil and an error, GetSettings returns an empty
\* map and an error, and the default settings are not put in the place of the
\* content: neither in the value returned nor in the file. The error is the
\* parse error, or the read error when the file cannot be read.
C16_MalformedFileIsAnError ==
    pc = "test" =>
        \A i \in 1..Len(result) :
            (result[i].fn \in {"loadSettingFromFile", "GetSettings"}
                 /\ result[i].before.file /\ ~result[i].before.data.json) =>
                /\ result[i].err.isErr
                /\ HasPrefix(result[i].err.msg,
                             IF result[i].before.fault = "unreadable"
                             THEN "failed to read config file: "
                             ELSE "failed to parse JSON: ")
                /\ result[i].value = EmptyMap
                /\ result[i].nil = (result[i].fn = "loadSettingFromFile")
                /\ result[i].after = result[i].before

\* C16 witness: both functions were called on a file that is not JSON.
C16_Witness ==
    /\ pc = "test"
    /\ Len(result) = 2
    /\ result[1].fn = "loadSettingFromFile"
    /\ result[2].fn = "GetSettings"
    /\ \A i \in 1..2 : result[i].before.file /\ ~result[i].before.data.json
    /\ \A i \in 1..2 : result[i].err.isErr

\* C15: when two invocations load the setting at the same time, the file is
\* absent and the file system refuses nothing, no invocation reads an empty or partly written file, and once
\* both have returned the file holds the whole default content and both have
\* loaded the default setting without error.
C15_ConcurrentFirstRuns ==
    (pc = "loading" /\ ~call.before.file /\ call.before.fault = "none") =>
        /\ \A p \in Invocations :
               result[p].step \in {"Unmarshal", "returned"} =>
                   result[p].data = JSONMarshalIndent(defaultSetting)
        /\ (\A p \in Invocations : result[p].step = "returned") =>
               /\ fs = DefaultFile
               /\ \A p \in Invocations :
                      ~result[p].err.isErr /\ result[p].value = defaultSetting

----------------------------------------------------------------------------
(* Content-Type *)

\* C17 as first stated: every request built carries Content-Type with the
\* value application/json, whatever the config and request header maps.
C17_Original ==
    Returned =>
        /\ "Content-Type" \in DOMAIN built.req.Header
        /\ built.req.Header["Content-Type"] = <<"application/json">>

\* the values the map gives to the keys that are Content-Type in canonical form
ContentTypeValues(m) ==
    {m[k] : k \in {x \in DOMAIN m : CanonicalMIMEHeaderKey(x) = "Content-Type"}}

\* C17: every request built carries exactly one Content-Type value; it is
\* application/json unless a config default header or a request header is
\* named Content-Type in canonical form, and then it is that header's value,
\* the request's before the config's.
C17_ContentTypePresent ==
    Returned =>
        /\ "Content-Type" \in DOMAIN built.req.Header
        /\ Len(built.req.Header["Content-Type"]) = 1
        /\ LET v == built.req.Header["Content-Type"][1] IN
           IF ContentTypeValues(request.Headers) # {}
           THEN v \in ContentTypeValues(request.Headers)
           ELSE IF ContentTypeValues(setting.Headers) # {}
           THEN v \in ContentTypeValues(setting.Headers)
           ELSE v = "application/json"

\* C17 witness: a request was built from a config that names content-type,
\* and another value than application/json is sent.
C17_Witness ==
    /\ Returned
    /\ "content-type" \in DOMAIN setting.Headers
    /\ "Content-Type" \notin DOMAIN request.Headers
    /\ built.req.Header["Content-Type"] = <<setting.Headers["content-type"]>>

----------------------------------------------------------------------------
(* the one HTTP call and its answer *)

\* C18 as first stated: at most one HTTP request goes out in a run.
C18_Original == network.requests <= 1

\* C18: in every run client.Do is called at most once: Execute makes its one
\* call and never a second one, and a transport failure ends the run with an
\* error after that one call.
C18_AtMostOneCall ==
    /\ sent <= 1
    /\ (sent = 1) <=> (pc \in {"prettyResponse", "done"} \/ (pc = "exited" /\ network.requests > 0))
    /\ (sent = 1 /\ network.err.isErr) =>
           /\ pc = "exited"
           /\ exitCode = 1
           /\ stdout = <<FatalLine("failed to execute request: ", network.err)>>

\* C18 witness: the connection was refused and the run has ended after its
\* one call.
C18_Witness ==
    /\ pc = "exited"
    /\ sent = 1
    /\ network.err.isErr
    /\ network.status = 0
    /\ exitCode = 1

\* the run is past Execute
Answered == sent > 0

\* C19: Execute gives the body of the answer as it is and no error whatever
\* the status (2xx, 204 with an empty body, 4xx, 5xx); only a transport or
\* body-read failure is an error, so the body of a 404 answer is printed and
\* the run ends with exit code 0.
C19_AnyStatusIsABody ==
    Answered =>
        /\ network.err.isErr <=> err.isErr
        /\ network.err.isErr <=> (pc = "exited")
        /\ ~network.err.isErr =>
               /\ response = network.body
               /\ pc = "done" => (exitCode = 0 /\ Len(stdout) = 1)
        /\ (pc = "done" /\ network.status = 404) => stdout = <<"not json">>

\* C19 witness: the run that was answered 404 has printed the body and ended.
C19_Witness ==
    /\ pc = "done"
    /\ network.status = 404
    /\ response = "not json"
    /\ exitCode = 0

\* C20: prettyResponse reports no error for bytes that are not JSON (the
\* empty body among them) and gives them back as they are; bytes that are JSON
\* come back serialized again with indentation: the same value, one member a
\* line, two spaces a level, {"a":1} as in the example.
C20_PrettyOrVerbatim ==
    pc = "done" =>
        LET out == stdout[Len(stdout)] IN
        /\ ~err.isErr
        /\ Len(stdout) = 1
        /\ response \notin DOMAIN JSONTexts => out = response
        /\ response \in DOMAIN JSONTexts =>
               /\ out \in DOMAIN JSONTexts
               /\ JSONTexts[out] = JSONTexts[response]
               /\ JSONTexts[response].kind = "object"
                      => (out = "{}" \/ HasPrefix(out, "{\n  \""))
               /\ ~Contains(out, "\":\"") /\ ~Contains(out, "\":1")
        /\ response = "{\"a\":1}" => out = "{\n  \"a\": 1\n}"
        /\ response = "" => out = ""

\* C20 witness: a run has printed a nested JSON body over several lines, keys
\* in order.
C20_Witness ==
    /\ pc = "done"
    /\ response = "{\"b\":{\"c\":\"d\"},\"a\":1}"
    /\ stdout = <<"{\n  \"a\": 1,\n  \"b\": {\n    \"c\": \"d\"\n  }\n}">>

----------------------------------------------------------------------------
(* errors end the run *)

\* the run has printed its one line starting with this text and has exited
ExitedWith(prefix) ==
    pc = "exited" /\ Len(stdout) = 1 /\ HasPrefix(stdout[1], prefix)

\* C21: an error that is not the invalid-format error ends the run where it
\* occurs: one [error] line naming it is printed, the exit code is 1, the
\* steps after the failing one have not run, and nothing runs afterwards.
C21_ErrorsAreTerminal ==
    /\ [](/\ err.isErr => pc = "exited"
          /\ (err.isErr /\ ~ErrorsIs(err, errInvalidFormat)) =>
                 /\ exitCode = 1
                 /\ ExitedWith("[error] failed to ")
                 /\ Contains(stdout[1], err.msg)
          /\ (pc = "exited" /\ exitCode = 1) => (err.isErr /\ ExitedWith("[error] "))
          /\ ExitedWith("[error] failed to build action from arguments: ") =>
                 setting = ZeroSetting /\ built = NoResult /\ sent = 0 /\ response = ""
          /\ ExitedWith("[error] failed to load setting: ") =>
                 setting = ZeroSetting /\ built = NoResult /\ sent = 0 /\ response = ""
          /\ ExitedWith("[error] failed to build request: ") =>
                 built.req.nil /\ sent = 0 /\ network = NoOutcome /\ response = ""
          /\ ExitedWith("[error] failed to execute request: ") =>
                 sent = 1 /\ response = "")
    /\ [][pc = "exited" => UNCHANGED vars]_vars
    /\ [][(pc' = "exited" /\ exitCode' = 1) =>
              (fs' # fs => pc = "Setting") /\ (sent' # sent => pc = "Execute")]_vars

\* C21 witness: the request could not be built for the alias whose URL does
\* not parse, and the run has ended with code 1 and nothing sent.
C21_Witness ==
    /\ ExitedWith("[error] failed to build request: ")
    /\ action.URLAlias = "bad"
    /\ exitCode = 1
    /\ sent = 0

\* the tokens fail in NewAction: too few, or a method that is not accepted
TokenizationFails ==
    Len(args) < 2 \/ ~SlicesContains(acceptedMethods, args[2])

\* C29: a tokenization error (too few tokens, unsupported method) ends the run
\* before the configuration is touched: the step that finds it leaves the file
\* system alone, no setting is loaded, no request is built or sent, and the
\* run is over.
C29_TokenErrorBeforeConfig ==
    /\ [][(pc = "NewAction" /\ TokenizationFails) =>
              /\ pc' = "exited"
              /\ fs' = fs
              /\ setting' = ZeroSetting
              /\ built' = NoResult
              /\ sent' = 0]_vars
    /\ []((pc = "exited" /\ TokenizationFails) =>
              /\ setting = ZeroSetting
              /\ built = NoResult
              /\ sent = 0
              /\ network = NoOutcome)
    /\ [][(pc = "exited" /\ TokenizationFails) => fs' = fs]_vars

\* C29 witness: post was refused with the config file absent, and the file is
\* still absent at the end of the run.
C29_Witness ==
    /\ pc = "exited"
    /\ Len(args) >= 2 /\ args[2] = "post"
    /\ exitCode = 1
    /\ ~fs.file /\ ~fs.dir

----------------------------------------------------------------------------
(* flag mode *)

\* the loop of NewAction is about to consume a token
AtToken == pc = "loop" /\ call.i <= Len(args)

\* C22: once a token starting with -- has been consumed, the loop stays in
\* flag mode: no later token is appended to URLPathComponents, every later
\* token without the prefix is stored as the value of the pending flag, and
\* what the loop returns is what NewAction returns.
C22_FlagModeNeverEnds ==
    /\ [][(AtToken /\ HasPrefix(args[call.i], "--")) => call'.readingFlag]_vars
    /\ [][(pc = "loop" /\ call.readingFlag) =>
              /\ call'.readingFlag
              /\ action'.URLPathComponents = action.URLPathComponents
              /\ (AtToken /\ ~HasPrefix(args[call.i], "--")) =>
                     /\ call'.lastFlag = call.lastFlag
                     /\ action'.Options[call.lastFlag] = args[call.i]]_vars
    /\ [](pc = "returned" =>
              (action = NewAction(args).action /\ err = NewAction(args).err))

\* C22 witness: a path token, a flag and a token after the flag were scanned;
\* the last token is the flag's value and the path has the first token alone.
C22_Witness ==
    /\ pc = "returned"
    /\ args = <<"api", "get", "users", "--include", "users">>
    /\ call.readingFlag
    /\ action.URLPathComponents = <<"users">>
    /\ action.Options["include"] = "users"

\* the tokens after the method, and the places of the flags among them
RestOf(a) == SubSeq(a, 3, Len(a))
FlagPlaces(rest) == {i \in 1..Len(rest) : HasPrefix(rest[i], "--")}
FlagName(rest, i) == TrimPrefix(rest[i], "--")

\* the place of the last token of the run of tokens without the prefix that
\* follows place i (i itself when the run is empty)
RunEnd(rest, i) ==
    CHOOSE j \in i..Len(rest) :
        /\ \A m \in (i + 1)..j : ~HasPrefix(rest[m], "--")
        /\ j = Len(rest) \/ HasPrefix(rest[j + 1], "--")

\* C23 as first stated: the keys of Options are the flags with the prefix
\* stripped, and a flag's value is the token right after it when that is no
\* flag, the empty string otherwise (for a repeated flag: of one of its
\* occurrences).
C23_Original ==
    pc = "Setting" =>
        LET rest == RestOf(args) IN
        /\ DOMAIN action.Options = {FlagName(rest, i) : i \in FlagPlaces(rest)}
        /\ \A k \in DOMAIN action.Options :
               \E i \in FlagPlaces(rest) :
                   /\ FlagName(rest, i) = k
                   /\ action.Options[k] =
                          IF i < Len(rest) /\ ~HasPrefix(rest[i + 1], "--")
                          THEN rest[i + 1] ELSE ""

\* C23: after NewAction succeeds the keys of Options are exactly the flags
\* after the method with the prefix stripped, and the value of a key comes
\* from the last occurrence of its flag: the empty string when no token
\* without the prefix follows it before the next flag or the end, and
\* otherwise the last such token before the next flag or the end.
C23_FlagValueIsLastToken ==
    pc = "Setting" =>
        LET rest == RestOf(args) IN
        /\ DOMAIN action.Options = {FlagName(rest, i) : i \in FlagPlaces(rest)}
        /\ \A k \in DOMAIN action.Options :
               LET last == CHOOSE i \in FlagPlaces(rest) :
                               /\ FlagName(rest, i) = k
                               /\ \A j \in FlagPlaces(rest) :
                                      FlagName(rest, j) = k => j <= i
               IN  action.Options[k] =
                       IF RunEnd(rest, last) = last THEN ""
                       ELSE rest[RunEnd(rest, last)]

\* C23 witness: a flag was followed by two tokens without the prefix and
\* holds the second.
C23_Witness ==
    /\ pc = "Setting"
    /\ RestOf(args) = <<"--include", "users", "-v">>
    /\ action.Options["include"] = "-v"

----------------------------------------------------------------------------
(* letter case of header names *)

\* the values the built request carries under the names that are ck up to
\* letter case
ValuesNamed(ck) ==
    UNION {{built.req.Header[n][i] : i \in 1..Len(built.req.Header[n])} :
               n \in {x \in DOMAIN built.req.Header : ToLower(x) = ToLower(ck)}}

\* C24 as first stated: a config header is replaced by a request header only
\* when the request has the very same name: then the request's value is sent
\* in its place; otherwise the config's value is sent, and a request header
\* whose name differs from it in letter case alone is another key, so that
\* both values are in the result.
C24_Original ==
    Returned =>
        \A ck \in DOMAIN setting.Headers :
            IF ck \in DOMAIN request.Headers
            THEN ValuesNamed(ck) \subseteq
                     {request.Headers[rk] :
                          rk \in {x \in DOMAIN request.Headers : ToLower(x) = ToLower(ck)}}
            ELSE /\ setting.Headers[ck] \in ValuesNamed(ck)
                 /\ \A rk \in DOMAIN request.Headers :
                        ToLower(rk) = ToLower(ck) => request.Headers[rk] \in ValuesNamed(ck)

\* C24: a request header replaces a config header whenever the two names are
\* the same in canonical form, so also when they are token names that differ
\* in letter case alone: the result then has one header of that name, under
\* the canonical spelling, with one value, a value of the request; a config
\* header whose canonical name no request header has keeps the config's
\* value, also when a request header differs from it in letter case alone
\* (names that are no tokens are kept as written).
C24_CanonicalNameReplaces ==
    Returned =>
        \A ck \in DOMAIN setting.Headers :
            LET n == CanonicalMIMEHeaderKey(ck)
                same == {rk \in DOMAIN request.Headers : CanonicalMIMEHeaderKey(rk) = n}
            IN  /\ n \in DOMAIN built.req.Header
                /\ ck \in DOMAIN built.req.Header => ck = n
                /\ Len(built.req.Header[n]) = 1
                /\ IF same # {}
                   THEN built.req.Header[n][1] \in {request.Headers[rk] : rk \in same}
                   ELSE built.req.Header[n][1] \in
                            {setting.Headers[k] : k \in KeysNamed(setting.Headers, n)}

\* C24 witness: the config names Authorization, the request authorization, and
\* the one Authorization header sent has the request's value.
C24_Witness ==
    /\ Returned
    /\ "Authorization" \in DOMAIN setting.Headers
    /\ DOMAIN request.Headers = {"authorization"}
    /\ built.req.Header["Authorization"] = <<request.Headers["authorization"]>>
    /\ "authorization" \notin DOMAIN built.req.Header

----------------------------------------------------------------------------
(* the JSON-body variants *)

\* the body texts the test of the variant expects for the maps of the model
ExpectedBodyText(b) ==
    CASE b = NilMap -> "null"
      [] b = BodyMap(EmptyMap) -> "{}"
      [] b.nil = FALSE /\ DOMAIN b.fields = {"name"} -> "{\"name\":\"John Doe\"}"
      [] b.nil = FALSE /\ DOMAIN b.fields = {"name", "age"} ->
             "{\"age\":30,\"name\":\"John Doe\"}"
      [] b.nil = FALSE /\ DOMAIN b.fields = {"user", "meta"} ->
             "{\"meta\":{\"version\":1.2},\"user\":{\"name\":\"Jane\"}}"
      [] OTHER -> ""

\* the map holds a channel, at the top or nested
HoldsChannel(b) ==
    ~b.nil /\ (\/ "invalid" \in DOMAIN b.fields
               \/ \E k \in DOMAIN b.fields : "invalid" \in DOMAIN b.fields[k].fields)

\* what C26 says of a call but for the method
BodyRequestAsClaimed ==
    IF HoldsChannel(call.r.Body)
    THEN built.err.isErr /\ built.req.nil
    ELSE /\ ~built.err.isErr
         /\ ~built.req.nil
         /\ built.req.URL = call.config.Domain \o "/" \o call.r.Path
         /\ ~ContainsChar(built.req.URL, "?")
         /\ built.req.Body.present
         /\ built.req.Body.bytes = ExpectedBodyText(call.r.Body)

\* C26 as first stated: every JSON-body ToHTTPRequest issues GET to base URL,
\* "/", path without a query string, with the JSON text of Body as the body
\* (null for a nil map), and returns an error and no request when the map
\* cannot be serialized.
C26_Original ==
    pc = "returned" =>
        /\ BodyRequestAsClaimed
        /\ ~built.err.isErr => built.req.Method = "GET"

\* C26: the same, with the method told apart by variant: internal/http always
\* issues GET, the older package internal issues r.HTTPMethod as given, GET
\* when that is empty.
C26_JSONBodyRequest ==
    pc = "returned" =>
        /\ BodyRequestAsClaimed
        /\ ~built.err.isErr =>
               built.req.Method =
                   IF call.fn = "http" \/ call.r.HTTPMethod = "" THEN "GET"
                   ELSE call.r.HTTPMethod

\* C26 witness: the nested map went out as the body of a GET of the
\* internal/http variant.
C26_Witness ==
    /\ pc = "returned"
    /\ call.fn = "http"
    /\ call.r.Path = "users"
    /\ built.req.Method = "GET"
    /\ built.req.URL = "https://api.example.com/users"
    /\ built.req.Body.bytes = "{\"meta\":{\"version\":1.2},\"user\":{\"name\":\"Jane\"}}"

----------------------------------------------------------------------------
(* one request, one result *)

\* the URL up to the order of its query pairs
URLUpToOrder(url) == <<Before(url, "?"), SplitSet(After(url, "?"), "&")>>

\* C25: for the request and the setting of the call, every order of ranging
\* over the three maps gives the result that was returned: the same method,
\* the same headers and the same URL up to the order of the query pairs.
C25_Deterministic ==
    Returned =>
        \A ao \in RangeOrders(request.Arguments),
           so \in RangeOrders(setting.Headers),
           ro \in RangeOrders(request.Headers) :
            LET other == ToHTTPRequest(request, setting, ao, so, ro) IN
            /\ ~other.err.isErr
            /\ other.req.Method = built.req.Method
            /\ other.req.Header = built.req.Header
            /\ URLUpToOrder(other.req.URL) = URLUpToOrder(built.req.URL)

----------------------------------------------------------------------------
(* what the config functions write *)

\* the calls of createDefaultSetting made so far
CreateCalls == {i \in 1..Len(result) : result[i].fn = "createDefaultSetting"}

\* call i + 1 was made on the disk call i left
Follows(i) == i + 1 <= Len(result) /\ result[i + 1].before = result[i].after

\* C27: on a file system that lets the folder and the file be written,
\* createDefaultSetting succeeds whether or not the file or its folder are
\* there, leaves the file holding exactly the indented JSON of the default
\* setting in the place of what was there, and a second call leaves what the
\* first left; it fails only when the file system refuses.
C27_CreateDefaultOverwrites ==
    pc = "test" =>
        \A i \in CreateCalls :
            /\ result[i].err.isErr <=> result[i].before.fault # "none"
            /\ result[i].before.fault = "none" =>
                /\ result[i].after.dir /\ result[i].after.file
                /\ result[i].after.data = JSONMarshalIndent(defaultSetting)
                /\ JSONUnmarshal(result[i].after.data).value = defaultSetting
                /\ (Follows(i) /\ i + 1 \in CreateCalls) =>
                       result[i + 1].after = result[i].after

\* C27 witness: createDefaultSetting was called twice in a row, first on a
\* file holding an edited setting.
C27_Witness ==
    /\ pc = "test"
    /\ CreateCalls = {1, 2}
    /\ result[1].before.file
    /\ result[1].before.data = JSONMarshalIndent(customSetting)
    /\ Follows(1)
    /\ fs = DefaultFile

\* the calls of loadSettingFromFile and GetSettings made so far
Loads == {i \in 1..Len(result) : result[i].fn \in {"loadSettingFromFile", "GetSettings"}}

\* C28: a load (loadSettingFromFile or GetSettings) on an existing file, valid
\* or malformed, leaves the file as it was, and a load on an absent file
\* leaves the default file when the file system lets it be written; so loads
\* made one after the other leave the content the first one found, or the
\* default when it found none.
C28_LoadLeavesFile ==
    pc = "test" =>
        \A i \in Loads :
            /\ result[i].before.file => result[i].after = result[i].before
            /\ (~result[i].before.file /\ result[i].before.fault = "none") =>
                   result[i].after = DefaultFile
            /\ (Follows(i) /\ i + 1 \in Loads
                    /\ (result[i].before.file \/ result[i].before.fault = "none")) =>
                   result[i + 1].after =
                       IF result[i].before.file THEN result[i].before ELSE DefaultFile

\* C28 witness: GetSettings and then loadSettingFromFile were called on a
\* file holding an edited setting, which is still there.
C28_Witness ==
    /\ pc = "test"
    /\ Len(result) = 2
    /\ result[1].fn = "GetSettings"
    /\ result[2].fn = "loadSettingFromFile"
    /\ result[1].before.data = JSONMarshalIndent(customSetting)
    /\ result[1].before.file
    /\ Follows(1)
    /\ fs = result[1].before

----------------------------------------------------------------------------
(* the parser's methods and the builder's methods *)

\* the builder's answer to a method it does not know
MethodNotSupported(e) == e.isErr /\ e.msg = "method not suported"

\* C30: every method NewAction accepts is accepted by buildHTTPRequest, so
\* the request of a parsed action is never refused by the builder for its
\* method.
C30_AcceptedMethodsAreBuilt ==
    /\ \A m \in MethodTokens, p \in {"", "users"},
          s \in {[URL |-> "https://api.example.com", Headers |-> EmptyMap]} :
           ~validateHTTPMethod(m).isErr =>
               ~MethodNotSupported(
                   buildHTTPRequest([Path |-> p, Method |-> m, Arguments |-> EmptyMap,
                                     Headers |-> EmptyMap], s, <<>>).err)
    /\ ~MethodNotSupported(built.err)
    /\ ~MethodNotSupported(err)

\* C30 witness: the request of a parsed delete action was built.
C30_Witness ==
    /\ pc = "Execute"
    /\ action.HTTPMethod = "delete"
    /\ request.Method = "delete"
    /\ ~built.err.isErr
    /\ built.req.Method = "delete"

====
